---- MODULE Spec2Model ----
(***************************************************************************)
(* Model of backend/server.js of the construction expense tracker: the     *)
(* single JSON document (data.json), the helpers loadData / saveData /     *)
(* calculateContractTotals and the Express handlers that mutate or read    *)
(* the document.  src/backend/server.js holds two versions of the backend: *)
(* lines 1-760 (tags, authentication, atomic save) and lines 762-1482 (no  *)
(* tags, no range checks on amounts, save writes data.json in place).      *)
(* `variant` says which of the two is running.                             *)
(*                                                                         *)
(* In the specification Spec every route is one action that runs the whole *)
(* handler: requests are served one after the other.  resp is the response *)
(* of the request being served; SendResponse hands it over and frees the   *)
(* server.  In the specification SpecSteps two requests are in flight and  *)
(* run await by await (inflight), saveData goes system call by system call *)
(* through data.json.tmp (tmp), and the process may crash.                 *)
(* file is data.json, uploads the binaries in the upload folder, clock the *)
(* reading of the clock (saveData stamps last_updated with clock + 1) and  *)
(* nextId the number of the next uuid.                                     *)
(*                                                                         *)
(* Numbers are integers (amounts in whole currency units); strings are     *)
(* sequences of one-character strings; a uuid is the number of the call of *)
(* uuidv4() that produced it.                                              *)
(***************************************************************************)
EXTENDS Integers, Sequences, FiniteSets, TLC

\* Bound of the model: the server takes mutation requests until MaxWrites of
\* them have left something on disk (a save of data.json, a binary in the
\* upload folder); reads are served at any time.
MaxWrites == 2

VARIABLES variant, file, uploads, clock, nextId, resp, tmp, inflight

vars == <<variant, file, uploads, clock, nextId, resp, tmp, inflight>>

-----------------------------------------------------------------------------
(* JavaScript values of request fields and stored fields.                  *)

Undefined == [k |-> "undefined", n |-> 0, s |-> <<>>]

Null == [k |-> "null", n |-> 0, s |-> <<>>]

NaN == [k |-> "nan", n |-> 0, s |-> <<>>]

\* The number Infinity (n = 1) or -Infinity (n = -1).
Inf(sign) == [k |-> "infinity", n |-> sign, s |-> <<>>]

Num(x) == [k |-> "number", n |-> x, s |-> <<>>]

Str(cs) == [k |-> "string", n |-> 0, s |-> cs]

\* The string that the i-th call of uuidv4() returned.
Uuid(i) == [k |-> "uuid", n |-> i, s |-> <<>>]

EmptyStr == Str(<<>>)

IsString(v) == v.k \in {"string", "uuid"}

\* JavaScript truthiness: !v is ~Truthy(v).
Truthy(v) ==
    \/ v.k \in {"uuid", "infinity"}
    \/ v.k = "number" /\ v.n # 0
    \/ v.k = "string" /\ v.s # <<>>

\* v === undefined || v === null
IsNullish(v) == v.k \in {"undefined", "null"}

\* a || b
OrElse(a, b) == IF Truthy(a) THEN a ELSE b

\* a ?? b
Coalesce(a, b) == IF IsNullish(a) THEN b ELSE a

-----------------------------------------------------------------------------
(* String.prototype.trim and toLowerCase on character sequences.           *)

UpperCase == <<"A", "B", "C", "D", "E", "F", "G", "H", "I", "J", "K", "L", "M",
               "N", "O", "P", "Q", "R", "S", "T", "U", "V", "W", "X", "Y", "Z">>

LowerCase == <<"a", "b", "c", "d", "e", "f", "g", "h", "i", "j", "k", "l", "m",
               "n", "o", "p", "q", "r", "s", "t", "u", "v", "w", "x", "y", "z">>

WhiteSpace == {" "}

LowerChar(c) ==
    IF \E i \in 1..Len(UpperCase) : UpperCase[i] = c
    THEN LowerCase[CHOOSE i \in 1..Len(UpperCase) : UpperCase[i] = c]
    ELSE c

toLowerCase(cs) == [i \in 1..Len(cs) |-> LowerChar(cs[i])]

RECURSIVE trimStart(_)
trimStart(cs) ==
    IF cs # <<>> /\ Head(cs) \in WhiteSpace THEN trimStart(Tail(cs)) ELSE cs

RECURSIVE trimEnd(_)
trimEnd(cs) ==
    IF cs # <<>> /\ cs[Len(cs)] \in WhiteSpace
    THEN trimEnd(SubSeq(cs, 1, Len(cs) - 1))
    ELSE cs

trim(cs) == trimEnd(trimStart(cs))

\* x?.trim(): undefined for undefined/null, the trimmed string for a string;
\* any other value has no trim method and the call throws a TypeError.
TrimThrows(v) == ~IsNullish(v) /\ ~IsString(v)

OptTrim(v) ==
    IF IsNullish(v) THEN Undefined
    ELSE IF v.k = "string" THEN Str(trim(v.s))
    ELSE v

-----------------------------------------------------------------------------
(* parseFloat: leading white space, an optional sign, then "Infinity" or   *)
(* decimal digits; anything else is NaN.  Fractions are outside the model. *)

Digits == <<"0", "1", "2", "3", "4", "5", "6", "7", "8", "9">>

IsDigit(c) == \E i \in 1..10 : Digits[i] = c

DigitVal(c) == (CHOOSE i \in 1..10 : Digits[i] = c) - 1

InfinityWord == <<"I", "n", "f", "i", "n", "i", "t", "y">>

HasPrefix(cs, p) == Len(cs) >= Len(p) /\ SubSeq(cs, 1, Len(p)) = p

\* The value of the longest run of digits at the head of cs, continuing acc.
RECURSIVE digitsValue(_, _)
digitsValue(cs, acc) ==
    IF cs # <<>> /\ IsDigit(Head(cs))
    THEN digitsValue(Tail(cs), 10 * acc + DigitVal(Head(cs)))
    ELSE acc

parseUnsigned(cs, sign) ==
    IF HasPrefix(cs, InfinityWord) THEN Inf(sign)
    ELSE IF cs # <<>> /\ IsDigit(Head(cs)) THEN Num(sign * digitsValue(cs, 0))
    ELSE NaN

parseFloatStr(cs) ==
    LET t == trimStart(cs) IN
    IF t # <<>> /\ Head(t) = "-" THEN parseUnsigned(Tail(t), -1)
    ELSE IF t # <<>> /\ Head(t) = "+" THEN parseUnsigned(Tail(t), 1)
    ELSE parseUnsigned(t, 1)

\* parseFloat(v) converts v to a string first: a number parses to itself,
\* undefined / null ("undefined", "null") and a uuid used as a number to NaN.
parseFloat(v) ==
    CASE v.k = "number" -> v
      [] v.k = "infinity" -> v
      [] v.k = "string" -> parseFloatStr(v.s)
      [] OTHER -> NaN

isNaN(v) == v.k = "nan"

\* x < 0, x <= 0 on the numbers parseFloat returns (false for NaN).
LessThanZero(v) == (v.k = "number" /\ v.n < 0) \/ (v.k = "infinity" /\ v.n < 0)

\* A test that takes small amounts for no amount.
AtMostForty(v) == (v.k = "number" /\ v.n <= 40) \/ (v.k = "infinity" /\ v.n < 0)

AtMostZero(v) == (v.k = "number" /\ v.n <= 0) \/ (v.k = "infinity" /\ v.n < 0)

\* JSON.stringify writes Infinity and NaN as null.
JsonValue(v) == IF v.k \in {"infinity", "nan"} THEN Null ELSE v

-----------------------------------------------------------------------------
(* The document and the file data.json that holds it.                      *)

\* { last_updated: null, vendors: [], contracts: [], tags: [] }; last_updated
\* is 0 for null, else the clock reading of the save that wrote it.
EmptyDoc == [last_updated |-> 0, vendors |-> <<>>, contracts |-> <<>>, tags |-> <<>>]

\* data.json: missing, holding a complete document, of length zero, or holding
\* the beginning of a document only.
MissingFile == [kind |-> "missing", doc |-> EmptyDoc]

DocFile(d) == [kind |-> "doc", doc |-> d]

TruncatedFile == [kind |-> "empty", doc |-> EmptyDoc]

PartialFile == [kind |-> "partial", doc |-> EmptyDoc]

\* What the storage can do to one call of loadData or saveData.
LoadOutcomes == {"ok", "fail"}

SaveOutcomes == {"ok", "fail", "truncated", "partial"}

\* loadData of the first backend: [threw, data].
loadData1(f, outcome) ==
    IF outcome = "fail" THEN [threw |-> TRUE, data |-> EmptyDoc]
    ELSE CASE f.kind = "missing" -> [threw |-> FALSE, data |-> EmptyDoc]
           [] f.kind = "empty" -> [threw |-> FALSE, data |-> EmptyDoc]
           [] f.kind = "partial" -> [threw |-> TRUE, data |-> EmptyDoc]
           [] OTHER ->
                [threw |-> FALSE,
                 data |-> [last_updated |-> f.doc.last_updated,
                           vendors |-> f.doc.vendors,
                           contracts |-> f.doc.contracts,
                           tags |-> f.doc.tags]]

\* loadData of the second backend: it returns vendors and contracts only.
loadData2(f, outcome) ==
    IF outcome = "fail" THEN [threw |-> TRUE, data |-> EmptyDoc]
    ELSE CASE f.kind = "missing" -> [threw |-> FALSE, data |-> EmptyDoc]
           [] f.kind = "empty" -> [threw |-> FALSE, data |-> EmptyDoc]
           [] f.kind = "partial" -> [threw |-> TRUE, data |-> EmptyDoc]
           [] OTHER ->
                [threw |-> FALSE,
                 data |-> [last_updated |-> 0,
                           vendors |-> f.doc.vendors,
                           contracts |-> f.doc.contracts,
                           tags |-> <<>>]]

loadData(v, f, outcome) == IF v = 1 THEN loadData1(f, outcome) ELSE loadData2(f, outcome)

\* JSON.stringify followed by JSON.parse of the stored records.
JsonPayment(p) ==
    [id |-> p.id, date |-> JsonValue(p.date), amount |-> JsonValue(p.amount),
     method |-> JsonValue(p.method), notes |-> JsonValue(p.notes)]

JsonContract(c) ==
    [c EXCEPT !.contractAmount = JsonValue(c.contractAmount),
              !.estimatedCompletion = JsonValue(c.estimatedCompletion),
              !.description = JsonValue(c.description),
              !.payments = [i \in 1..Len(c.payments) |-> JsonPayment(c.payments[i])]]

\* A serialisation that writes the contracts in reverse order.
JsonContractsReversed(cs) == [i \in 1..Len(cs) |-> JsonContract(cs[Len(cs) + 1 - i])]

JsonContracts(cs) == [i \in 1..Len(cs) |-> JsonContract(cs[i])]

\* saveData of the first backend: the document is written to data.json.tmp and
\* renamed onto data.json; when the write or the rename fails data.json is
\* what it was.  [file, threw]
saveData1(f, data, now, outcome) ==
    IF outcome = "ok"
    THEN [threw |-> FALSE,
          file |-> DocFile([last_updated |-> now,
                            vendors |-> data.vendors,
                            contracts |-> JsonContracts(data.contracts),
                            tags |-> data.tags])]
    ELSE [threw |-> TRUE, file |-> f]

\* saveData of the second backend: fs.writeFile on data.json itself, which
\* opens the file truncating it and then writes; a failure leaves the old
\* content (open failed), an empty file, or the beginning of the new content.
saveData2(f, data, now, outcome) ==
    CASE outcome = "ok" ->
            [threw |-> FALSE,
             file |-> DocFile([last_updated |-> 0,
                               vendors |-> data.vendors,
                               contracts |-> JsonContracts(data.contracts),
                               tags |-> <<>>])]
      [] outcome = "fail" -> [threw |-> TRUE, file |-> f]
      [] outcome = "truncated" -> [threw |-> TRUE, file |-> TruncatedFile]
      [] OTHER -> [threw |-> TRUE, file |-> PartialFile]

saveData(v, f, data, now, outcome) ==
    IF v = 1 THEN saveData1(f, data, now, outcome) ELSE saveData2(f, data, now, outcome)

-----------------------------------------------------------------------------
(* Array helpers.                                                          *)

\* arr.findIndex(e => e.id === id), 0 for -1.  A path parameter is a string,
\* so only the id of a stored record can be equal to it.
findIndex(arr, id) ==
    IF \E i \in 1..Len(arr) : arr[i].id = id
    THEN CHOOSE i \in 1..Len(arr) : arr[i].id = id /\ \A j \in 1..(i - 1) : arr[j].id # id
    ELSE 0

\* A lookup that takes every uuid for the id of an element.
someIdUnchecked(arr, v) == v.k = "uuid"

\* arr.some(e => e.id === v) for a request value v.
someId(arr, v) == v.k = "uuid" /\ \E i \in 1..Len(arr) : arr[i].id = v.n

-----------------------------------------------------------------------------
(* Responses.  resp is the response of the request being served, or Idle   *)
(* when the server waits for the next request.  tagIds is the tagIds field *)
(* of the body of an update of a contract, loadThrew tells that loadData    *)
(* threw, orphan that the unlink of a binary just stored failed (the       *)
(* handler logs it), vendorId the vendorId of the body of a creation of a  *)
(* contract.                                                               *)

Idle ==
    [op |-> "none", status |-> 0, id |-> 0, id2 |-> 0, saveCalled |-> FALSE,
     created |-> 0, createdVendor |-> 0, vendorIdGiven |-> FALSE,
     newVendorGiven |-> FALSE, warning |-> FALSE, view |-> <<>>,
     tagIds |-> [k |-> "undefined", a |-> <<>>], loadThrew |-> FALSE,
     orphan |-> FALSE, vendorId |-> Undefined]

Response(op, status, id, id2) ==
    [Idle EXCEPT !.op = op, !.status = status, !.id = id, !.id2 = id2]

\* The answer of the catch block when loadData threw.
CaughtLoad(r) == [r EXCEPT !.status = 500, !.loadThrew = TRUE]

\* A path that answers without calling saveData.
Reply(r) ==
    /\ resp' = r
    /\ UNCHANGED <<variant, file, uploads, clock, nextId, tmp, inflight>>

\* await saveData(data) and the answer after it: okResp when the save
\* returned, the catch block's 500 when it threw.  ids is the number of uuids
\* this request stores; okUploads / failUploads is the upload folder after the
\* request in the two cases.
SaveAndReplyDisk(data, outcome, ids, okResp, okUploads, failUploads) ==
    /\ LET r == saveData(variant, file, data, clock + 1, outcome) IN
          /\ file' = r.file
          /\ clock' = IF r.threw /\ r.file = file THEN clock ELSE clock + 1
          /\ nextId' = IF r.threw THEN nextId ELSE nextId + ids
          /\ uploads' = IF r.threw THEN failUploads ELSE okUploads
          /\ resp' = IF r.threw
                     THEN [okResp EXCEPT !.status = 500, !.saveCalled = TRUE,
                                         !.created = 0, !.createdVendor = 0,
                                         !.warning = FALSE]
                     ELSE [okResp EXCEPT !.saveCalled = TRUE]
    /\ UNCHANGED <<variant, tmp, inflight>>

SaveAndReply(data, outcome, ids, okResp) ==
    SaveAndReplyDisk(data, outcome, ids, okResp, uploads, uploads)

\* A read route that would write back what it has loaded.
ReadReplySaving(data, r) == SaveAndReply(data, "ok", 0, r)

\* res.json(...) of a read route: the loaded document is dropped.
ReadReply(data, r) == Reply(r)

-----------------------------------------------------------------------------
(* Requests.  The bodies are the values a client can send: the cases the   *)
(* handlers tell apart (missing, blank, padded, of the wrong type).        *)

\* What the storage does during one request: the outcome of loadData and, if
\* the handler gets that far, of saveData.  A failed save of the first backend
\* leaves data.json as it was whatever became of data.json.tmp.
OkIO == [load |-> "ok", save |-> "ok"]

FailIO ==
    {[load |-> "fail", save |-> "ok"]}
        \cup {[load |-> "ok", save |-> so] :
                so \in IF variant = 1 THEN {"fail"} ELSE SaveOutcomes \ {"ok"}}

IOOutcomes == {OkIO} \cup FailIO

\* Requests [body, io]: every body with the storage working, and the body
\* `base` with each failure of the storage.
Requests(bodies, base) ==
    {[body |-> b, io |-> OkIO] : b \in bodies}
        \cup {[body |-> base, io |-> io] : io \in FailIO}

VendorBody(companyName, contactName) ==
    [companyName |-> companyName, contactName |-> contactName,
     phone |-> Undefined, email |-> Undefined, address |-> Undefined]

AcmeBody == VendorBody(Str(<<" ", "A", "c", "m", "e">>), Undefined)

VendorBodies ==
    {AcmeBody,
     VendorBody(Str(<<"Z", "e", "d">>), Str(<<"A", "l", " ">>)),
     VendorBody(Str(<<" ", " ">>), Undefined),
     VendorBody(Undefined, Str(<<"A", "l", " ">>)),
     VendorBody(Num(7), Undefined)}

VendorRequests == Requests(VendorBodies, AcmeBody)

DefaultColor == Str(<<"#", "c", "c", "c", "c", "c", "c">>)

UrgentBody == [name |-> Str(<<"U", "r", "g", "e", "n", "t">>), color |-> Undefined]

TagBodies ==
    {UrgentBody,
     [name |-> Str(<<" ", "u", "r", "g", "e", "n", "t", " ">>),
      color |-> Str(<<"#", "f", "0", "0">>)],
     [name |-> Str(<<"H", "i">>), color |-> Undefined],
     [name |-> Str(<<" ">>), color |-> Undefined],
     [name |-> Undefined, color |-> Undefined],
     [name |-> Num(5), color |-> Undefined]}

TagRequests == Requests(TagBodies, UrgentBody)

-----------------------------------------------------------------------------
(* First backend: vendor routes.                                           *)

\* app.post('/api/vendors')
PostVendorsHandler(body, io) ==
    LET r(status) == Response("PostVendors", status, 0, 0)
        l == loadData(1, file, io.load)
        newVendor == [id |-> nextId,
                      companyName |-> OptTrim(body.companyName),
                      contactName |-> OrElse(OptTrim(body.contactName), EmptyStr),
                      phone |-> OrElse(OptTrim(body.phone), EmptyStr),
                      email |-> OrElse(OptTrim(body.email), EmptyStr),
                      address |-> OrElse(OptTrim(body.address), EmptyStr)]
    IN  IF TrimThrows(body.companyName) THEN Reply(r(500))
        ELSE IF ~Truthy(OptTrim(body.companyName)) THEN Reply(r(400))
        ELSE IF l.threw THEN Reply(CaughtLoad(r(500)))
        ELSE IF \/ TrimThrows(body.contactName) \/ TrimThrows(body.phone)
                \/ TrimThrows(body.email) \/ TrimThrows(body.address)
        THEN Reply(r(500))
        ELSE SaveAndReply([l.data EXCEPT !.vendors = Append(@, newVendor)],
                          io.save, 1, [r(201) EXCEPT !.created = nextId])

\* app.put('/api/vendors/:vendorId').  The check of companyName stands before
\* the try block: a companyName that is no string throws there, the promise
\* of the handler is rejected and no response is sent (status 0).
PutVendorHandler(vendorId, body, io) ==
    LET r(status) == Response("PutVendor", status, vendorId, 0)
        l == loadData(1, file, io.load)
        vendorIndex == findIndex(l.data.vendors, vendorId)
        old == l.data.vendors[vendorIndex]
        updatedVendor ==
            [old EXCEPT !.companyName = OptTrim(body.companyName),
                        !.contactName = Coalesce(OptTrim(body.contactName), old.contactName),
                        !.phone = Coalesce(OptTrim(body.phone), old.phone),
                        !.email = Coalesce(OptTrim(body.email), old.email),
                        !.address = Coalesce(OptTrim(body.address), old.address)]
    IN  IF TrimThrows(body.companyName) THEN Reply(r(0))
        ELSE IF ~Truthy(OptTrim(body.companyName)) THEN Reply(r(400))
        ELSE IF l.threw THEN Reply(CaughtLoad(r(500)))
        ELSE IF vendorIndex = 0 THEN Reply(r(404))
        ELSE IF \/ TrimThrows(body.contactName) \/ TrimThrows(body.phone)
                \/ TrimThrows(body.email) \/ TrimThrows(body.address)
        THEN Reply(r(500))
        ELSE SaveAndReply([l.data EXCEPT !.vendors[vendorIndex] = updatedVendor],
                          io.save, 0, r(200))

\* A usage test that finds no contract.
isVendorUsedNever(contracts, vendorId) == FALSE

\* data.contracts.some(c => c.vendorId === vendorId)
isVendorUsed(contracts, vendorId) ==
    \E i \in 1..Len(contracts) : contracts[i].vendorId = vendorId

\* app.delete('/api/vendors/:vendorId')
DeleteVendorHandler(vendorId, io) ==
    LET r(status) == Response("DeleteVendor", status, vendorId, 0)
        l == loadData(1, file, io.load)
        Keep(x) == x.id # vendorId
        vendors == SelectSeq(l.data.vendors, Keep)
    IN  IF l.threw THEN Reply(CaughtLoad(r(500)))
        ELSE IF isVendorUsed(l.data.contracts, vendorId) THEN Reply(r(409))
        ELSE IF Len(vendors) = Len(l.data.vendors) THEN Reply(r(404))
        ELSE SaveAndReply([l.data EXCEPT !.vendors = vendors], io.save, 0, r(204))

-----------------------------------------------------------------------------
(* First backend: tag routes.                                              *)

\* A duplicate test that compares the stored names as they are.
nameTakenExact(tags, nameLower) ==
    \E i \in 1..Len(tags) : tags[i].name.s = nameLower

\* data.tags.some(t => t.name.toLowerCase().trim() === nameLower)
nameTaken(tags, nameLower) ==
    \E i \in 1..Len(tags) : trim(toLowerCase(tags[i].name.s)) = nameLower

\* app.post('/api/tags')
PostTagsHandler(body, io) ==
    LET r(status) == Response("PostTags", status, 0, 0)
        l == loadData(1, file, io.load)
        nameLower == trim(toLowerCase(body.name.s))
        newTag == [id |-> nextId, name |-> OptTrim(body.name),
                   color |-> OrElse(body.color, DefaultColor)]
    IN  IF TrimThrows(body.name) THEN Reply(r(500))
        ELSE IF ~Truthy(OptTrim(body.name)) THEN Reply(r(400))
        ELSE IF l.threw THEN Reply(CaughtLoad(r(500)))
        ELSE IF nameTaken(l.data.tags, nameLower) THEN Reply(r(409))
        ELSE SaveAndReply([l.data EXCEPT !.tags = Append(@, newTag)],
                          io.save, 1, [r(201) EXCEPT !.created = nextId])

\* A strip that leaves the contract as it is.
StripTagNothing(contract, tagId) == contract

\* contract.tagIds.filter(id => id !== tagId)
StripTag(contract, tagId) ==
    LET Keep(id) == id # tagId
    IN  [contract EXCEPT !.tagIds = SelectSeq(@, Keep)]

\* app.delete('/api/tags/:tagId')
DeleteTagHandler(tagId, io) ==
    LET r(status) == Response("DeleteTag", status, tagId, 0)
        l == loadData(1, file, io.load)
        Keep(t) == t.id # tagId
        tags == SelectSeq(l.data.tags, Keep)
        contracts == [i \in 1..Len(l.data.contracts) |->
                        StripTag(l.data.contracts[i], tagId)]
    IN  IF l.threw THEN Reply(CaughtLoad(r(500)))
        ELSE IF Len(tags) = Len(l.data.tags) THEN Reply(r(404))
        ELSE SaveAndReply([l.data EXCEPT !.tags = tags, !.contracts = contracts],
                          io.save, 0, r(204))

-----------------------------------------------------------------------------
(* First backend: contract routes.                                         *)

\* newVendor?.companyName
NewVendorName(newVendor) ==
    IF newVendor.present THEN newVendor.companyName ELSE Undefined

\* An inline creation that does not look at vendorId.
InlineVendorAnyway(vendorId, companyName) == Truthy(companyName)

\* if (!vendorId && newVendor?.companyName?.trim()): the vendor is created
\* inline.  companyName is the name as the backend tests it.
InlineVendor(vendorId, companyName) == ~Truthy(vendorId) /\ Truthy(companyName)

\* A tagIds filter that keeps every id of the request.
validTagIdsUnfiltered(tagIds, tags) ==
    IF tagIds.k = "array" THEN tagIds.a ELSE <<>>

\* A filter that sorts the ids it keeps.
validTagIdsSorted(tagIds, tags) ==
    LET available == {tags[i].id : i \in 1..Len(tags)}
        Has(id) == id \in available
        kept == IF tagIds.k = "array" THEN SelectSeq(tagIds.a, Has) ELSE <<>>
    IN  IF Len(kept) = 2 /\ kept[1] > kept[2] THEN <<kept[2], kept[1]>> ELSE kept

\* tagIds.forEach(id => { if (availableTagIds.has(id)) validTagIds.push(id); })
validTagIds(tagIds, tags) ==
    LET available == {tags[i].id : i \in 1..Len(tags)}
        Has(id) == id \in available
    IN  IF tagIds.k = "array" THEN SelectSeq(tagIds.a, Has) ELSE <<>>

\* A check of the vendorId that lets every id pass.
vendorIdMissingNever(vendors, vendorId) == FALSE

\* if (!data.vendors.some(v => v.id === vendorId)) return res.status(400)
vendorIdMissing(vendors, vendorId) == ~someId(vendors, vendorId)

\* app.post('/api/contracts')
PostContractsHandler(body, io) ==
    LET r(status) ==
            [Response("PostContracts", status, 0, 0) EXCEPT
                !.vendorId = body.vendorId,
                !.tagIds = body.tagIds,
                !.vendorIdGiven = Truthy(body.vendorId),
                !.newVendorGiven = Truthy(NewVendorName(body.newVendor))]
        l == loadData(1, file, io.load)
        nv == body.newVendor
        nvName == NewVendorName(nv)
        amount == parseFloat(body.contractAmount)
        inline == InlineVendor(body.vendorId, OptTrim(nvName))
        createdVendor ==
            [id |-> nextId,
             companyName |-> OptTrim(nv.companyName),
             contactName |-> OrElse(OptTrim(nv.contactName), EmptyStr),
             phone |-> OrElse(OptTrim(nv.phone), EmptyStr),
             email |-> OrElse(OptTrim(nv.email), EmptyStr),
             address |-> OrElse(OptTrim(nv.address), EmptyStr)]
        contractId == IF inline THEN nextId + 1 ELSE nextId
        newContract ==
            [id |-> contractId,
             vendorId |-> IF inline THEN createdVendor.id ELSE body.vendorId.n,
             description |-> OptTrim(body.description),
             contractAmount |-> amount,
             estimatedCompletion |-> OrElse(body.estimatedCompletion, Null),
             tagIds |-> validTagIds(body.tagIds, l.data.tags),
             payments |-> <<>>,
             files |-> <<>>]
        vendors == IF inline THEN Append(l.data.vendors, createdVendor)
                   ELSE l.data.vendors
    IN  IF l.threw THEN Reply(CaughtLoad(r(500)))
        ELSE IF TrimThrows(body.description) THEN Reply(r(500))
        ELSE IF ~Truthy(OptTrim(body.description)) \/ IsNullish(body.contractAmount)
        THEN Reply(r(400))
        ELSE IF ~Truthy(body.vendorId) /\ TrimThrows(nvName) THEN Reply(r(500))
        ELSE IF ~Truthy(body.vendorId) /\ ~Truthy(OptTrim(nvName)) THEN Reply(r(400))
        ELSE IF isNaN(amount) \/ LessThanZero(amount) THEN Reply(r(400))
        ELSE IF inline /\ (\/ TrimThrows(nv.contactName) \/ TrimThrows(nv.phone)
                           \/ TrimThrows(nv.email) \/ TrimThrows(nv.address))
        THEN Reply(r(500))
        ELSE IF ~inline /\ vendorIdMissing(l.data.vendors, body.vendorId) THEN Reply(r(400))
        ELSE SaveAndReply([l.data EXCEPT !.vendors = vendors,
                                         !.contracts = Append(@, newContract)],
                          io.save, IF inline THEN 2 ELSE 1,
                          [r(201) EXCEPT !.created = contractId,
                                         !.createdVendor = IF inline THEN nextId ELSE 0])

\* An updated contract that is built from the request alone.
spreadContractBare(contract) == [contract EXCEPT !.payments = <<>>, !.files = <<>>]

\* ...data.contracts[contractIndex]: the stored contract with its id, payments
\* and files, under the fields of the update.
spreadContract(contract) == contract

\* A tagIds key that is written whatever the body holds.
TagIdsGivenAlways(tagIds) == TRUE

\* tagIds !== undefined: the key was present in the request body.
TagIdsGiven(tagIds) == tagIds.k # "undefined"

\* app.put('/api/contracts/:contractId').  The first checks stand before the
\* try block: a description that is no string throws there and no response is
\* sent (status 0).
PutContractHandler(contractId, body, io) ==
    LET r(status) == [Response("PutContract", status, contractId, 0)
                         EXCEPT !.tagIds = body.tagIds]
        l == loadData(1, file, io.load)
        amount == parseFloat(body.contractAmount)
        contractIndex == findIndex(l.data.contracts, contractId)
        old == l.data.contracts[contractIndex]
        updatedContractData ==
            [spreadContract(old) EXCEPT !.description = OptTrim(body.description),
                        !.contractAmount = amount,
                        !.estimatedCompletion = OrElse(body.estimatedCompletion, Null),
                        !.vendorId = body.vendorId.n,
                        !.tagIds = IF TagIdsGiven(body.tagIds)
                                   THEN validTagIds(body.tagIds, l.data.tags)
                                   ELSE @]
    IN  IF TrimThrows(body.description) THEN Reply(r(0))
        ELSE IF \/ ~Truthy(OptTrim(body.description))
                \/ IsNullish(body.contractAmount)
                \/ ~Truthy(body.vendorId)
        THEN Reply(r(400))
        ELSE IF isNaN(amount) \/ LessThanZero(amount) THEN Reply(r(400))
        ELSE IF l.threw THEN Reply(CaughtLoad(r(500)))
        ELSE IF ~someId(l.data.vendors, body.vendorId) THEN Reply(r(400))
        ELSE IF contractIndex = 0 THEN Reply(r(404))
        ELSE IF body.tagIds.k \notin {"array", "undefined"} THEN Reply(r(400))
        ELSE SaveAndReply([l.data EXCEPT !.contracts[contractIndex] = updatedContractData],
                          io.save, 0, r(200))

\* The file names of a contract's file records.
FileNames(contract) == {contract.files[i].filename : i \in 1..Len(contract.files)}

\* An unlink whose failure reaches the handler's catch block.
UnlinkRejectsOnFailure(failed) == failed # {}

\* try { await fs.unlink(filePath) } catch (unlinkError) { console.error(...) }
\* inside Promise.allSettled / Promise.all: a failed unlink is logged and
\* never rejects.
UnlinkRejects(failed) == FALSE

\* app.delete('/api/contracts/:contractId').  unlinkFails are the stored
\* binaries whose fs.unlink fails; the failures are logged only.
DeleteContractHandler(contractId, unlinkFails, io) ==
    LET r(status) == Response("DeleteContract", status, contractId, 0)
        l == loadData(1, file, io.load)
        contractIndex == findIndex(l.data.contracts, contractId)
        contractToDelete == l.data.contracts[contractIndex]
        Keep(c) == c.id # contractId
        disk == uploads \ (FileNames(contractToDelete) \ unlinkFails)
    IN  IF l.threw THEN Reply(CaughtLoad(r(500)))
        ELSE IF contractIndex = 0 THEN Reply(r(404))
        ELSE IF UnlinkRejects(FileNames(contractToDelete) \cap unlinkFails)
        THEN Reply(r(500))
        ELSE SaveAndReplyDisk([l.data EXCEPT !.contracts = SelectSeq(@, Keep)],
                              io.save, 0, r(204), disk, disk)

-----------------------------------------------------------------------------
(* First backend: payment routes.                                          *)

\* app.post('/api/contracts/:contractId/payments')
PostPaymentHandler(contractId, body, io) ==
    LET r(status) == Response("PostPayment", status, contractId, 0)
        l == loadData(1, file, io.load)
        paymentAmount == parseFloat(body.amount)
        contractIndex == findIndex(l.data.contracts, contractId)
        newPayment == [id |-> nextId, date |-> body.date, amount |-> paymentAmount,
                       method |-> OrElse(body.method, EmptyStr),
                       notes |-> OrElse(OptTrim(body.notes), EmptyStr)]
    IN  IF ~Truthy(body.date) \/ IsNullish(body.amount) THEN Reply(r(400))
        ELSE IF isNaN(paymentAmount) \/ AtMostZero(paymentAmount) THEN Reply(r(400))
        ELSE IF l.threw THEN Reply(CaughtLoad(r(500)))
        ELSE IF contractIndex = 0 THEN Reply(r(404))
        ELSE IF TrimThrows(body.notes) THEN Reply(r(500))
        ELSE SaveAndReply([l.data EXCEPT !.contracts[contractIndex].payments =
                                            Append(@, newPayment)],
                          io.save, 1, [r(201) EXCEPT !.created = nextId])

\* app.put('/api/contracts/:contractId/payments/:paymentId')
PutPaymentHandler(contractId, paymentId, body, io) ==
    LET r(status) == Response("PutPayment", status, contractId, paymentId)
        l == loadData(1, file, io.load)
        paymentAmount == parseFloat(body.amount)
        contractIndex == findIndex(l.data.contracts, contractId)
        contract == l.data.contracts[contractIndex]
        paymentIndex == findIndex(contract.payments, paymentId)
        old == contract.payments[paymentIndex]
        updatedPayment ==
            [old EXCEPT !.date = body.date,
                        !.amount = paymentAmount,
                        !.method = Coalesce(body.method, old.method),
                        !.notes = Coalesce(OptTrim(body.notes), old.notes)]
    IN  IF ~Truthy(body.date) \/ IsNullish(body.amount) THEN Reply(r(400))
        ELSE IF isNaN(paymentAmount) \/ AtMostZero(paymentAmount) THEN Reply(r(400))
        ELSE IF l.threw THEN Reply(CaughtLoad(r(500)))
        ELSE IF contractIndex = 0 THEN Reply(r(404))
        ELSE IF paymentIndex = 0 THEN Reply(r(404))
        ELSE IF TrimThrows(body.notes) THEN Reply(r(500))
        ELSE SaveAndReply([l.data EXCEPT !.contracts[contractIndex].payments[paymentIndex] =
                                            updatedPayment],
                          io.save, 0, r(200))

\* app.delete('/api/contracts/:contractId/payments/:paymentId')
DeletePaymentHandler(contractId, paymentId, io) ==
    LET r(status) == Response("DeletePayment", status, contractId, paymentId)
        l == loadData(1, file, io.load)
        contractIndex == findIndex(l.data.contracts, contractId)
        contract == l.data.contracts[contractIndex]
        Keep(x) == x.id # paymentId
        payments == SelectSeq(contract.payments, Keep)
    IN  IF l.threw THEN Reply(CaughtLoad(r(500)))
        ELSE IF contractIndex = 0 THEN Reply(r(404))
        ELSE IF Len(payments) = Len(contract.payments) THEN Reply(r(404))
        ELSE SaveAndReply([l.data EXCEPT !.contracts[contractIndex].payments = payments],
                          io.save, 0, r(204))

-----------------------------------------------------------------------------
(* First backend: upload routes.  multer stores the binary under a new     *)
(* uuid before the handler runs.                                           *)

\* A path on which the handler removes the binary multer stored and answers
\* without a file record: fs.unlink succeeds, or fails and the binary stays.
\* An answer without a file record that leaves the stored binary in place.
ReplyKeepingBinary(r, unlinkOk) ==
    /\ uploads' = uploads \cup {nextId}
    /\ nextId' = nextId + 1
    /\ clock' = clock + 1
    /\ resp' = [r EXCEPT !.orphan = ~unlinkOk]
    /\ UNCHANGED <<variant, file, tmp, inflight>>

UnlinkAndReply(r, unlinkOk) ==
    IF unlinkOk THEN Reply(r)
    ELSE /\ uploads' = uploads \cup {nextId}
         /\ nextId' = nextId + 1
         /\ clock' = clock + 1
         /\ resp' = [r EXCEPT !.orphan = TRUE]
         /\ UNCHANGED <<variant, file, tmp, inflight>>

\* The save of an upload handler and what follows it.
SaveUpload(data, outcome, r, unlinkOk) ==
    /\ LET s == saveData(variant, file, data, clock + 1, outcome) IN
          /\ file' = s.file
          /\ clock' = IF s.threw /\ s.file = file /\ unlinkOk THEN clock
                    ELSE clock + 1
          /\ nextId' = IF s.threw THEN (IF unlinkOk THEN nextId ELSE nextId + 1)
                       ELSE nextId + 2
          /\ uploads' = IF s.threw /\ unlinkOk THEN uploads ELSE uploads \cup {nextId}
          /\ resp' = IF s.threw
                     THEN [r EXCEPT !.status = 500, !.saveCalled = TRUE,
                                    !.orphan = ~unlinkOk]
                     ELSE [r EXCEPT !.status = 201, !.saveCalled = TRUE,
                                    !.created = nextId + 1]
    /\ UNCHANGED <<variant, tmp, inflight>>

\* app.post('/api/contracts/:contractId/uploads')
PostUploadHandler(contractId, hasFile, originalname, unlinkOk, io) ==
    LET r(status) == Response("PostUpload", status, contractId, 0)
        l == loadData(1, file, io.load)
        contractIndex == findIndex(l.data.contracts, contractId)
        newFile == [id |-> nextId + 1, filename |-> nextId,
                    originalFilename |-> originalname]
    IN  IF ~hasFile THEN Reply(r(400))
        ELSE IF l.threw THEN UnlinkAndReply(CaughtLoad(r(500)), unlinkOk)
        ELSE IF contractIndex = 0 THEN UnlinkAndReply(r(404), unlinkOk)
        ELSE SaveUpload([l.data EXCEPT !.contracts[contractIndex].files =
                                          Append(@, newFile)],
                        io.save, r(201), unlinkOk)

\* A splice that removes nothing.
RemoveNothing(arr, i) == arr

\* arr.splice(i, 1)
RemoveAt(arr, i) == SubSeq(arr, 1, i - 1) \o SubSeq(arr, i + 1, Len(arr))

\* app.delete('/api/contracts/:contractId/uploads/:fileId').  fs.unlink fails
\* when unlinkOk is false and when the binary is not in the upload folder
\* (ENOENT).
DeleteUploadHandler(contractId, fileId, unlinkOk, io) ==
    LET r(status) == Response("DeleteUpload", status, contractId, fileId)
        l == loadData(1, file, io.load)
        contractIndex == findIndex(l.data.contracts, contractId)
        contract == l.data.contracts[contractIndex]
        fileIndex == findIndex(contract.files, fileId)
        filename == contract.files[fileIndex].filename
        fileDeletedFromDisk == unlinkOk /\ filename \in uploads
    IN  IF l.threw THEN Reply(CaughtLoad(r(500)))
        ELSE IF contractIndex = 0 THEN Reply(r(404))
        ELSE IF fileIndex = 0 THEN Reply(r(404))
        ELSE SaveAndReplyDisk([l.data EXCEPT !.contracts[contractIndex].files =
                                                RemoveAt(@, fileIndex)],
                              io.save, 0,
                              IF fileDeletedFromDisk THEN r(204)
                              ELSE [r(200) EXCEPT !.warning = TRUE],
                              IF fileDeletedFromDisk THEN uploads \ {filename}
                              ELSE uploads,
                              uploads)

-----------------------------------------------------------------------------
(* Derived figures and the read of the contracts.                          *)

\* parseFloat(x) || 0 on a stored value: a loaded document holds numbers,
\* strings and null (JSON has no Infinity and no NaN).
FloatOrZero(v) == LET p == parseFloat(v) IN IF p.k = "number" THEN p.n ELSE 0

\* payments.reduce((sum, payment) => sum + (parseFloat(payment.amount) || 0), 0)
RECURSIVE reducePayments(_, _)
reducePayments(payments, sum) ==
    IF payments = <<>> THEN sum
    ELSE reducePayments(Tail(payments), sum + FloatOrZero(Head(payments).amount))

\* Totals that count no payment.
calculateContractTotalsUnpaid(contract) ==
    [paidTotal |-> 0, balanceOwed |-> FloatOrZero(contract.contractAmount)]

calculateContractTotals(contract) ==
    LET paidTotal == reducePayments(contract.payments, 0)
        contractAmount == FloatOrZero(contract.contractAmount)
    IN  [paidTotal |-> paidTotal, balanceOwed |-> contractAmount - paidTotal]

UnknownVendor ==
    Str(<<"U", "n", "k", "n", "o", "w", "n", " ", "V", "e", "n", "d", "o", "r">>)

\* String.prototype.localeCompare(a, b) <= 0 in the root collation, for the
\* characters of the model: the letters compare without case first, a space
\* before a digit before a letter; equal strings up to case compare with the
\* lower case letter first.
CharOrder == <<" ", "#">> \o Digits \o LowerCase

CharRank(c) ==
    LET lc == LowerChar(c)
    IN  IF \E i \in 1..Len(CharOrder) : CharOrder[i] = lc
        THEN CHOOSE i \in 1..Len(CharOrder) : CharOrder[i] = lc
        ELSE 0

RECURSIVE comparePrimary(_, _)
comparePrimary(a, b) ==
    IF a = <<>> /\ b = <<>> THEN 0
    ELSE IF a = <<>> THEN -1
    ELSE IF b = <<>> THEN 1
    ELSE IF CharRank(Head(a)) < CharRank(Head(b)) THEN -1
    ELSE IF CharRank(Head(a)) > CharRank(Head(b)) THEN 1
    ELSE comparePrimary(Tail(a), Tail(b))

RECURSIVE compareCase(_, _)
compareCase(a, b) ==
    IF a = <<>> \/ b = <<>> THEN 0
    ELSE IF Head(a) = Head(b) THEN compareCase(Tail(a), Tail(b))
    ELSE IF Head(a) = LowerChar(Head(a)) THEN -1
    ELSE 1

localeCompare(a, b) ==
    LET p == comparePrimary(a, b) IN IF p # 0 THEN p ELSE compareCase(a, b)

\* Array.prototype.sort by vendorName (stable): insertion from the left.
RECURSIVE insertSorted(_, _)
insertSorted(sorted, x) ==
    IF sorted = <<>> THEN <<x>>
    ELSE IF localeCompare(Head(sorted).vendorName.s, x.vendorName.s) <= 0
    THEN <<Head(sorted)>> \o insertSorted(Tail(sorted), x)
    ELSE <<x>> \o sorted

RECURSIVE sortByVendorName(_, _)
sortByVendorName(arr, sorted) ==
    IF arr = <<>> THEN sorted
    ELSE sortByVendorName(Tail(arr), insertSorted(sorted, Head(arr)))

\* vendorMap.get(contract.vendorId): the last vendor with that id.
VendorName(vendors, vendorId) ==
    IF \E i \in 1..Len(vendors) : vendors[i].id = vendorId
    THEN LET i == CHOOSE i \in 1..Len(vendors) :
                    /\ vendors[i].id = vendorId
                    /\ \A j \in (i + 1)..Len(vendors) : vendors[j].id # vendorId
         IN  vendors[i].companyName
    ELSE UnknownVendor

\* (contract.tagIds || []).map(tagId => tagMap.get(tagId)).filter(Boolean)
populatedTags(tagIds, tags) ==
    LET Known(id) == \E i \in 1..Len(tags) : tags[i].id = id
        known == SelectSeq(tagIds, Known)
    IN  [i \in 1..Len(known) |->
            tags[CHOOSE j \in 1..Len(tags) :
                    /\ tags[j].id = known[i]
                    /\ \A m \in (j + 1)..Len(tags) : tags[m].id # known[i]]]

\* One element of contractsWithDetails.
ContractView(contract, data) ==
    LET totals == calculateContractTotals(contract)
    IN  [contract |-> contract,
         paidTotal |-> totals.paidTotal,
         balanceOwed |-> totals.balanceOwed,
         vendorName |-> VendorName(data.vendors, contract.vendorId),
         tags |-> populatedTags(contract.tagIds, data.tags)]

\* app.get('/api/contracts')
GetContractsHandler(io) ==
    LET r(status) == Response("GetContracts", status, 0, 0)
        l == loadData(1, file, io.load)
        contractsWithDetails ==
            [i \in 1..Len(l.data.contracts) |-> ContractView(l.data.contracts[i], l.data)]
    IN  IF l.threw THEN Reply(CaughtLoad(r(500)))
        ELSE ReadReply(l.data,
                       [r(200) EXCEPT !.view = sortByVendorName(contractsWithDetails, <<>>)])

-----------------------------------------------------------------------------
(* Second backend.  Its document has vendors and contracts only: a contract *)
(* has no tagIds (the empty tagIds of the model), and nothing is trimmed.   *)

\* app.post('/api/vendors')
PostVendorsHandler2(body, io) ==
    LET r(status) == Response("PostVendors", status, 0, 0)
        l == loadData(2, file, io.load)
        newVendor == [id |-> nextId,
                      companyName |-> body.companyName,
                      contactName |-> OrElse(body.contactName, EmptyStr),
                      phone |-> OrElse(body.phone, EmptyStr),
                      email |-> OrElse(body.email, EmptyStr),
                      address |-> OrElse(body.address, EmptyStr)]
    IN  IF ~Truthy(body.companyName) THEN Reply(r(400))
        ELSE IF l.threw THEN Reply(CaughtLoad(r(500)))
        ELSE SaveAndReply([l.data EXCEPT !.vendors = Append(@, newVendor)],
                          io.save, 1, [r(201) EXCEPT !.created = nextId])

\* app.put('/api/vendors/:vendorId')
PutVendorHandler2(vendorId, body, io) ==
    LET r(status) == Response("PutVendor", status, vendorId, 0)
        l == loadData(2, file, io.load)
        vendorIndex == findIndex(l.data.vendors, vendorId)
        old == l.data.vendors[vendorIndex]
        updatedVendor ==
            [old EXCEPT !.companyName = body.companyName,
                        !.contactName = Coalesce(body.contactName, old.contactName),
                        !.phone = Coalesce(body.phone, old.phone),
                        !.email = Coalesce(body.email, old.email),
                        !.address = Coalesce(body.address, old.address)]
    IN  IF ~Truthy(body.companyName) THEN Reply(r(400))
        ELSE IF l.threw THEN Reply(CaughtLoad(r(500)))
        ELSE IF vendorIndex = 0 THEN Reply(r(404))
        ELSE SaveAndReply([l.data EXCEPT !.vendors[vendorIndex] = updatedVendor],
                          io.save, 0, r(200))

\* app.delete('/api/vendors/:vendorId')
DeleteVendorHandler2(vendorId, io) ==
    LET r(status) == Response("DeleteVendor", status, vendorId, 0)
        l == loadData(2, file, io.load)
        Keep(x) == x.id # vendorId
        vendors == SelectSeq(l.data.vendors, Keep)
    IN  IF l.threw THEN Reply(CaughtLoad(r(500)))
        ELSE IF isVendorUsed(l.data.contracts, vendorId) THEN Reply(r(409))
        ELSE IF Len(vendors) = Len(l.data.vendors) THEN Reply(r(404))
        ELSE SaveAndReply([l.data EXCEPT !.vendors = vendors], io.save, 0, r(204))

\* app.get('/api/contracts'): the contracts in stored order.
GetContractsHandler2(io) ==
    LET r(status) == Response("GetContracts", status, 0, 0)
        l == loadData(2, file, io.load)
        contractsWithDetails ==
            [i \in 1..Len(l.data.contracts) |-> ContractView(l.data.contracts[i], l.data)]
    IN  IF l.threw THEN Reply(CaughtLoad(r(500)))
        ELSE ReadReply(l.data, [r(200) EXCEPT !.view = contractsWithDetails])

\* app.post('/api/contracts'): the body is checked before the document is
\* loaded.
PostContractsHandler2(body, io) ==
    LET r(status) ==
            [Response("PostContracts", status, 0, 0) EXCEPT
                !.vendorId = body.vendorId,
                !.tagIds = body.tagIds,
                !.vendorIdGiven = Truthy(body.vendorId),
                !.newVendorGiven = Truthy(NewVendorName(body.newVendor))]
        l == loadData(2, file, io.load)
        nv == body.newVendor
        nvName == NewVendorName(nv)
        amount == parseFloat(body.contractAmount)
        inline == InlineVendor(body.vendorId, nvName)
        createdVendor ==
            [id |-> nextId,
             companyName |-> nv.companyName,
             contactName |-> OrElse(nv.contactName, EmptyStr),
             phone |-> OrElse(nv.phone, EmptyStr),
             email |-> OrElse(nv.email, EmptyStr),
             address |-> OrElse(nv.address, EmptyStr)]
        contractId == IF inline THEN nextId + 1 ELSE nextId
        newContract ==
            [id |-> contractId,
             vendorId |-> IF inline THEN createdVendor.id ELSE body.vendorId.n,
             description |-> body.description,
             contractAmount |-> amount,
             estimatedCompletion |-> OrElse(body.estimatedCompletion, Null),
             tagIds |-> <<>>,
             payments |-> <<>>,
             files |-> <<>>]
        vendors == IF inline THEN Append(l.data.vendors, createdVendor)
                   ELSE l.data.vendors
    IN  IF ~Truthy(body.description) \/ IsNullish(body.contractAmount)
        THEN Reply(r(400))
        ELSE IF ~Truthy(body.vendorId) /\ ~Truthy(nvName) THEN Reply(r(400))
        ELSE IF isNaN(amount) THEN Reply(r(400))
        ELSE IF l.threw THEN Reply(CaughtLoad(r(500)))
        ELSE IF ~inline /\ vendorIdMissing(l.data.vendors, body.vendorId) THEN Reply(r(400))
        ELSE SaveAndReply([l.data EXCEPT !.vendors = vendors,
                                         !.contracts = Append(@, newContract)],
                          io.save, IF inline THEN 2 ELSE 1,
                          [r(201) EXCEPT !.created = contractId,
                                         !.createdVendor = IF inline THEN nextId ELSE 0])

\* app.put('/api/contracts/:contractId')
PutContractHandler2(contractId, body, io) ==
    LET r(status) == Response("PutContract", status, contractId, 0)
        l == loadData(2, file, io.load)
        amount == parseFloat(body.contractAmount)
        contractIndex == findIndex(l.data.contracts, contractId)
        old == l.data.contracts[contractIndex]
        updatedContractData ==
            [spreadContract(old) EXCEPT !.description = body.description,
                        !.contractAmount = amount,
                        !.estimatedCompletion = OrElse(body.estimatedCompletion, Null),
                        !.vendorId = body.vendorId.n]
    IN  IF \/ ~Truthy(body.description)
           \/ IsNullish(body.contractAmount)
           \/ ~Truthy(body.vendorId)
        THEN Reply(r(400))
        ELSE IF isNaN(amount) THEN Reply(r(400))
        ELSE IF l.threw THEN Reply(CaughtLoad(r(500)))
        ELSE IF ~someId(l.data.vendors, body.vendorId) THEN Reply(r(400))
        ELSE IF contractIndex = 0 THEN Reply(r(404))
        ELSE SaveAndReply([l.data EXCEPT !.contracts[contractIndex] = updatedContractData],
                          io.save, 0, r(200))

\* app.delete('/api/contracts/:contractId')
DeleteContractHandler2(contractId, unlinkFails, io) ==
    LET r(status) == Response("DeleteContract", status, contractId, 0)
        l == loadData(2, file, io.load)
        contractIndex == findIndex(l.data.contracts, contractId)
        contractToDelete == l.data.contracts[contractIndex]
        Keep(c) == c.id # contractId
        disk == uploads \ (FileNames(contractToDelete) \ unlinkFails)
    IN  IF l.threw THEN Reply(CaughtLoad(r(500)))
        ELSE IF contractIndex = 0 THEN Reply(r(404))
        ELSE IF UnlinkRejects(FileNames(contractToDelete) \cap unlinkFails)
        THEN Reply(r(500))
        ELSE SaveAndReplyDisk([l.data EXCEPT !.contracts = SelectSeq(@, Keep)],
                              io.save, 0, r(204), disk, disk)

\* app.post('/api/contracts/:contractId/payments')
PostPaymentHandler2(contractId, body, io) ==
    LET r(status) == Response("PostPayment", status, contractId, 0)
        l == loadData(2, file, io.load)
        paymentAmount == parseFloat(body.amount)
        contractIndex == findIndex(l.data.contracts, contractId)
        newPayment == [id |-> nextId, date |-> body.date, amount |-> paymentAmount,
                       method |-> OrElse(body.method, EmptyStr),
                       notes |-> OrElse(body.notes, EmptyStr)]
    IN  IF ~Truthy(body.date) \/ IsNullish(body.amount) THEN Reply(r(400))
        ELSE IF isNaN(paymentAmount) THEN Reply(r(400))
        ELSE IF l.threw THEN Reply(CaughtLoad(r(500)))
        ELSE IF contractIndex = 0 THEN Reply(r(404))
        ELSE SaveAndReply([l.data EXCEPT !.contracts[contractIndex].payments =
                                            Append(@, newPayment)],
                          io.save, 1, [r(201) EXCEPT !.created = nextId])

\* app.put('/api/contracts/:contractId/payments/:paymentId')
PutPaymentHandler2(contractId, paymentId, body, io) ==
    LET r(status) == Response("PutPayment", status, contractId, paymentId)
        l == loadData(2, file, io.load)
        paymentAmount == parseFloat(body.amount)
        contractIndex == findIndex(l.data.contracts, contractId)
        contract == l.data.contracts[contractIndex]
        paymentIndex == findIndex(contract.payments, paymentId)
        old == contract.payments[paymentIndex]
        updatedPayment ==
            [old EXCEPT !.date = body.date,
                        !.amount = paymentAmount,
                        !.method = Coalesce(body.method, old.method),
                        !.notes = Coalesce(body.notes, old.notes)]
    IN  IF ~Truthy(body.date) \/ IsNullish(body.amount) THEN Reply(r(400))
        ELSE IF isNaN(paymentAmount) THEN Reply(r(400))
        ELSE IF l.threw THEN Reply(CaughtLoad(r(500)))
        ELSE IF contractIndex = 0 THEN Reply(r(404))
        ELSE IF paymentIndex = 0 THEN Reply(r(404))
        ELSE SaveAndReply([l.data EXCEPT !.contracts[contractIndex].payments[paymentIndex] =
                                            updatedPayment],
                          io.save, 0, r(200))

\* app.delete('/api/contracts/:contractId/payments/:paymentId')
DeletePaymentHandler2(contractId, paymentId, io) ==
    LET r(status) == Response("DeletePayment", status, contractId, paymentId)
        l == loadData(2, file, io.load)
        contractIndex == findIndex(l.data.contracts, contractId)
        contract == l.data.contracts[contractIndex]
        Keep(x) == x.id # paymentId
        payments == SelectSeq(contract.payments, Keep)
    IN  IF l.threw THEN Reply(CaughtLoad(r(500)))
        ELSE IF contractIndex = 0 THEN Reply(r(404))
        ELSE IF Len(payments) = Len(contract.payments) THEN Reply(r(404))
        ELSE SaveAndReply([l.data EXCEPT !.contracts[contractIndex].payments = payments],
                          io.save, 0, r(204))

\* app.post('/api/contracts/:contractId/uploads')
PostUploadHandler2(contractId, hasFile, originalname, unlinkOk, io) ==
    LET r(status) == Response("PostUpload", status, contractId, 0)
        l == loadData(2, file, io.load)
        contractIndex == findIndex(l.data.contracts, contractId)
        newFile == [id |-> nextId + 1, filename |-> nextId,
                    originalFilename |-> originalname]
    IN  IF ~hasFile THEN Reply(r(400))
        ELSE IF l.threw THEN UnlinkAndReply(CaughtLoad(r(500)), unlinkOk)
        ELSE IF contractIndex = 0 THEN UnlinkAndReply(r(404), unlinkOk)
        ELSE SaveUpload([l.data EXCEPT !.contracts[contractIndex].files =
                                          Append(@, newFile)],
                        io.save, r(201), unlinkOk)

\* app.delete('/api/contracts/:contractId/uploads/:fileId')
DeleteUploadHandler2(contractId, fileId, unlinkOk, io) ==
    LET r(status) == Response("DeleteUpload", status, contractId, fileId)
        l == loadData(2, file, io.load)
        contractIndex == findIndex(l.data.contracts, contractId)
        contract == l.data.contracts[contractIndex]
        fileIndex == findIndex(contract.files, fileId)
        filename == contract.files[fileIndex].filename
        fileDeletedFromDisk == unlinkOk /\ filename \in uploads
    IN  IF l.threw THEN Reply(CaughtLoad(r(500)))
        ELSE IF contractIndex = 0 THEN Reply(r(404))
        ELSE IF fileIndex = 0 THEN Reply(r(404))
        ELSE SaveAndReplyDisk([l.data EXCEPT !.contracts[contractIndex].files =
                                                RemoveAt(@, fileIndex)],
                              io.save, 0,
                              IF fileDeletedFromDisk THEN r(204)
                              ELSE [r(200) EXCEPT !.warning = TRUE],
                              IF fileDeletedFromDisk THEN uploads \ {filename}
                              ELSE uploads,
                              uploads)

-----------------------------------------------------------------------------
(* Reports.  A report answers with parallel lists (labels, data, colors,   *)
(* csvData), modelled as one list of entries, and the first backend's      *)
(* vendor report with a summary.                                           *)

\* obj[key] = (obj[key] || 0) + amount for each <<key, amount>> of credits, in
\* order: the keys of a JavaScript object are enumerated in insertion order.
RECURSIVE accumulate(_, _)
accumulate(credits, acc) ==
    IF credits = <<>> THEN acc
    ELSE LET key == Head(credits)[1]
             amount == Head(credits)[2]
             at == {i \in 1..Len(acc) : acc[i].key = key}
         IN  accumulate(Tail(credits),
                        IF at = {} THEN Append(acc, [key |-> key, total |-> amount])
                        ELSE [i \in 1..Len(acc) |->
                                 IF i \in at THEN [acc[i] EXCEPT !.total = @ + amount]
                                 ELSE acc[i]])

\* The paid total of a contract in a report.
paidForThisContract(contract) == reducePayments(contract.payments, 0)

\* vendorMap.get(vendorId) || `Unknown Vendor (${vendorId.substring(0,6)}...)`:
\* the name that is not a vendor's keeps the id it was made from.
VendorLabel(vendors, vendorId) ==
    IF \E i \in 1..Len(vendors) : vendors[i].id = vendorId
    THEN VendorName(vendors, vendorId)
    ELSE [UnknownVendor EXCEPT !.n = vendorId]

\* The vendor credits of the contracts, in stored order: the first backend
\* credits a contract whose paid total is positive, the second every contract.
RECURSIVE vendorCredits(_, _)
vendorCredits(contracts, positiveOnly) ==
    IF contracts = <<>> THEN <<>>
    ELSE LET paid == paidForThisContract(Head(contracts))
         IN  (IF positiveOnly /\ paid <= 0 THEN <<>>
              ELSE <<(<<Head(contracts).vendorId, paid>>)>>)
             \o vendorCredits(Tail(contracts), positiveOnly)

\* totalContracted += parseFloat(contract.contractAmount) || 0
RECURSIVE totalContracted(_)
totalContracted(contracts) ==
    IF contracts = <<>> THEN 0
    ELSE FloatOrZero(Head(contracts).contractAmount) + totalContracted(Tail(contracts))

\* A grand total that is assigned, not added to.
totalSpentLast(contracts) ==
    IF contracts = <<>> THEN 0 ELSE paidForThisContract(contracts[Len(contracts)])

\* totalSpent += paidForThisContract
RECURSIVE totalSpent(_)
totalSpent(contracts) ==
    IF contracts = <<>> THEN 0
    ELSE paidForThisContract(Head(contracts)) + totalSpent(Tail(contracts))

NoSummary == [given |-> FALSE, totalContracted |-> 0, totalSpent |-> 0]

\* app.get('/api/reports/spending-by-vendor')
SpendingByVendorHandler(io) ==
    LET r(status) == Response("SpendingByVendor", status, 0, 0)
        l == loadData(1, file, io.load)
        spendingByVendorId == accumulate(vendorCredits(l.data.contracts, TRUE), <<>>)
        entries == [i \in 1..Len(spendingByVendorId) |->
                       [label |-> VendorLabel(l.data.vendors, spendingByVendorId[i].key),
                        data |-> spendingByVendorId[i].total]]
    IN  IF l.threw THEN Reply(CaughtLoad(r(500)))
        ELSE ReadReply(l.data,
                 [r(200) EXCEPT
                      !.view = [entries |-> entries,
                                summary |-> [given |-> TRUE,
                                             totalContracted |-> totalContracted(l.data.contracts),
                                             totalSpent |-> totalSpent(l.data.contracts)]]])

\* app.get('/api/reports/spending-by-vendor') of the second backend: no
\* summary, and the vendors whose total is positive.
SpendingByVendorHandler2(io) ==
    LET r(status) == Response("SpendingByVendor", status, 0, 0)
        l == loadData(2, file, io.load)
        spending == accumulate(vendorCredits(l.data.contracts, FALSE), <<>>)
        Positive(e) == e.total > 0
        listed == SelectSeq(spending, Positive)
        entries == [i \in 1..Len(listed) |->
                       [label |-> VendorLabel(l.data.vendors, listed[i].key),
                        data |-> listed[i].total]]
    IN  IF l.threw THEN Reply(CaughtLoad(r(500)))
        ELSE ReadReply(l.data,
                 [r(200) EXCEPT !.view = [entries |-> entries, summary |-> NoSummary]])

\* The tag credits of the contracts, in stored order: a contract whose paid
\* total is positive credits the full total to each of its tagIds that is in
\* tagMap, once for each time the id stands in the list.
RECURSIVE tagCredits(_, _)
tagCredits(contracts, tags) ==
    IF contracts = <<>> THEN <<>>
    ELSE LET contract == Head(contracts)
             paid == paidForThisContract(contract)
             Has(tagId) == \E i \in 1..Len(tags) : tags[i].id = tagId
             known == SelectSeq(contract.tagIds, Has)
         IN  (IF paid <= 0 THEN <<>>
              ELSE [i \in 1..Len(known) |-> <<known[i], paid>>])
             \o tagCredits(Tail(contracts), tags)

\* A report that leaves the contracts without tags out.
untaggedSpendingNone(contracts) == 0

\* untaggedSpending += paidForThisContract
RECURSIVE untaggedSpending(_)
untaggedSpending(contracts) ==
    IF contracts = <<>> THEN 0
    ELSE (IF Head(contracts).tagIds = <<>> /\ paidForThisContract(Head(contracts)) > 0
          THEN paidForThisContract(Head(contracts)) ELSE 0)
         + untaggedSpending(Tail(contracts))

Untagged == Str(<<"U", "n", "t", "a", "g", "g", "e", "d">>)

UntaggedColor == Str(<<"#", "8", "6", "8", "e", "9", "6">>)

\* app.get('/api/reports/spending-by-tag')
SpendingByTagHandler(io) ==
    LET r(status) == Response("SpendingByTag", status, 0, 0)
        l == loadData(1, file, io.load)
        spendingByTag == accumulate(tagCredits(l.data.contracts, l.data.tags), <<>>)
        tagInfo(tagId) == populatedTags(<<tagId>>, l.data.tags)[1]
        entries == [i \in 1..Len(spendingByTag) |->
                       [label |-> tagInfo(spendingByTag[i].key).name,
                        data |-> spendingByTag[i].total,
                        color |-> OrElse(tagInfo(spendingByTag[i].key).color,
                                         Str(<<"#", "c", "c", "c", "c", "c", "c">>))]]
        untagged == untaggedSpending(l.data.contracts)
    IN  IF l.threw THEN Reply(CaughtLoad(r(500)))
        ELSE ReadReply(l.data,
                 [r(200) EXCEPT
                      !.view = [entries |-> IF untagged > 0
                                            THEN Append(entries,
                                                        [label |-> Untagged,
                                                         data |-> untagged,
                                                         color |-> UntaggedColor])
                                            ELSE entries,
                                summary |-> NoSummary]])

\* tags.sort((a, b) => a.name.localeCompare(b.name)): the sort works on the
\* array loadData has just parsed.
RECURSIVE insertTag(_, _)
insertTag(sorted, x) ==
    IF sorted = <<>> THEN <<x>>
    ELSE IF localeCompare(Head(sorted).name.s, x.name.s) <= 0
    THEN <<Head(sorted)>> \o insertTag(Tail(sorted), x)
    ELSE <<x>> \o sorted

RECURSIVE sortTags(_, _)
sortTags(arr, sorted) ==
    IF arr = <<>> THEN sorted
    ELSE sortTags(Tail(arr), insertTag(sorted, Head(arr)))

\* app.get('/api/tags')
GetTagsHandler(io) ==
    LET r(status) == Response("GetTags", status, 0, 0)
        l == loadData(1, file, io.load)
    IN  IF l.threw THEN Reply(CaughtLoad(r(500)))
        ELSE ReadReply(l.data, [r(200) EXCEPT !.view = sortTags(l.data.tags, <<>>)])

\* app.get('/api/vendors') without a search term, the same in both backends.
GetVendorsHandler(io) ==
    LET r(status) == Response("GetVendors", status, 0, 0)
        l == loadData(variant, file, io.load)
    IN  IF l.threw THEN Reply(CaughtLoad(r(500)))
        ELSE ReadReply(l.data, [r(200) EXCEPT !.view = l.data.vendors])

-----------------------------------------------------------------------------
(* The requests of the contract, payment and upload routes.                *)

\* The document a client has last seen, and the ids in it.
CurrentDoc == IF file.kind = "doc" THEN file.doc ELSE EmptyDoc

IdsOf(arr) == {arr[i].id : i \in 1..Len(arr)}

VendorIdsNow == IdsOf(CurrentDoc.vendors)

TagIdsNow == IdsOf(CurrentDoc.tags)

ContractIdsNow == IdsOf(CurrentDoc.contracts)

PaymentIdsNow ==
    UNION {IdsOf(CurrentDoc.contracts[i].payments) : i \in 1..Len(CurrentDoc.contracts)}

FileIdsNow ==
    UNION {IdsOf(CurrentDoc.contracts[i].files) : i \in 1..Len(CurrentDoc.contracts)}

FileNamesNow ==
    UNION {FileNames(CurrentDoc.contracts[i]) : i \in 1..Len(CurrentDoc.contracts)}

\* A vendorId of a request: the id of a vendor, or (Uuid(0)) another string.
VendorRefs == {Uuid(i) : i \in VendorIdsNow \cup {0}}

NoNewVendor ==
    [present |-> FALSE, companyName |-> Undefined, contactName |-> Undefined,
     phone |-> Undefined, email |-> Undefined, address |-> Undefined]

NewVendorSpec(companyName, contactName) ==
    [present |-> TRUE, companyName |-> companyName, contactName |-> contactName,
     phone |-> Undefined, email |-> Undefined, address |-> Undefined]

AcmeSpec == NewVendorSpec(Str(<<" ", "A", "c", "m", "e">>), Undefined)

NewVendors ==
    {NoNewVendor,
     AcmeSpec,
     NewVendorSpec(Str(<<" ">>), Undefined),
     NewVendorSpec(Num(7), Undefined)}

\* The tagIds field: absent, null, or an array of tag ids and other strings (0).
NoTagIds == [k |-> "undefined", a |-> <<>>]

NullTagIds == [k |-> "null", a |-> <<>>]

TagArray(a) == [k |-> "array", a |-> a]

TagArrays ==
    LET c == TagIdsNow \cup {0}
    IN  {TagArray(<<>>)} \cup {TagArray(<<i>>) : i \in c}
            \cup {TagArray(<<i, j>>) : i \in c, j \in c}

Roof == Str(<<" ", "R", "o", "o", "f">>)

SomeDate == Str(<<"2", "0", "2", "4">>)

ContractBody(vendorId, newVendor, description, amount, completion, tagIds) ==
    [vendorId |-> vendorId, newVendor |-> newVendor, description |-> description,
     contractAmount |-> amount, estimatedCompletion |-> completion,
     tagIds |-> tagIds]

\* Amounts a handler must tell apart: missing, negative, no number, a number
\* in a string, Infinity.
BadAmounts ==
    {Undefined, Null, Num(-5), Str(<<"a", "b", "c">>)}

FortyX == Str(<<" ", "4", "0", "x">>)

InfinityStr == Str(InfinityWord)

\* The vendorId of an existing vendor, if there is one.
KnownVendorRefs == {Uuid(i) : i \in VendorIdsNow}

BaseContractBodies ==
    {ContractBody(v, NoNewVendor, Roof, Num(1000), Undefined, NoTagIds) :
        v \in KnownVendorRefs}

\* Bodies of POST /api/contracts and PUT /api/contracts/:id.
ContractBodies ==
    {ContractBody(v, NoNewVendor, Roof, Num(1000), Undefined, NoTagIds) :
        v \in VendorRefs}
    \cup
    {ContractBody(v, NoNewVendor, Roof, Num(1000), Undefined, t) :
        v \in KnownVendorRefs, t \in TagArrays \cup {NullTagIds}}
    \cup
    {ContractBody(v, NoNewVendor, Roof, a, Undefined, NoTagIds) :
        v \in KnownVendorRefs, a \in BadAmounts \cup {FortyX, InfinityStr}}
    \cup
    {ContractBody(v, NoNewVendor, Roof, Num(0), SomeDate, NoTagIds) :
        v \in KnownVendorRefs}
    \cup
    {ContractBody(v, NoNewVendor, d, Num(1000), Undefined, NoTagIds) :
        v \in KnownVendorRefs, d \in {Undefined, Str(<<" ">>)}}

\* Bodies of POST /api/contracts that name no vendor, or a vendor to create.
InlineContractBodies ==
    {ContractBody(v, nv, Roof, Num(1000), Undefined, NoTagIds) :
        v \in {Undefined, EmptyStr}, nv \in NewVendors}
    \cup
    {ContractBody(v, AcmeSpec, Roof, Num(1000), Undefined, NoTagIds) :
        v \in VendorRefs \cup {Num(7)}}
    \cup
    {ContractBody(Undefined, AcmeSpec, Roof, Num(1000), Undefined, t) :
        t \in TagArrays}

InlineBase == ContractBody(Undefined, AcmeSpec, Roof, Num(1000), Undefined, NoTagIds)

PostContractsRequests ==
    Requests(ContractBodies \cup InlineContractBodies, InlineBase)

PutContractRequests ==
    {[body |-> b, io |-> OkIO] : b \in ContractBodies}
        \cup {[body |-> b, io |-> io] : b \in BaseContractBodies, io \in FailIO}
        \cup {[body |-> InlineBase, io |-> OkIO]}

PaymentBody(date, amount, method, notes) ==
    [date |-> date, amount |-> amount, method |-> method, notes |-> notes]

BasePayment == PaymentBody(SomeDate, Num(400), Undefined, Undefined)

PaymentBodies ==
    {BasePayment,
     PaymentBody(SomeDate, InfinityStr, Undefined, Undefined),
     PaymentBody(SomeDate, Num(0), Undefined, Undefined),
     PaymentBody(SomeDate, FortyX, Str(<<"c", "a", "s", "h">>), Str(<<" ", "n">>)),
     PaymentBody(Undefined, Num(400), Undefined, Undefined)}
    \cup {PaymentBody(SomeDate, a, Undefined, Undefined) : a \in BadAmounts}

PaymentRequests == Requests(PaymentBodies, BasePayment)

OriginalNames == {Str(<<"a", ".", "p", "d", "f">>)}

-----------------------------------------------------------------------------
(* The server: one request at a time; the response leaves before the next  *)
(* request is taken.                                                       *)

\* A document the first backend has saved in an earlier run: one vendor, two
\* tags and one contract that carries both, created by four requests
\* (uuids 1 to 4).
SeedDoc ==
    [last_updated |-> 1,
     vendors |-> <<[id |-> 1, companyName |-> Str(<<"A", "c", "m", "e">>),
                    contactName |-> EmptyStr, phone |-> EmptyStr,
                    email |-> EmptyStr, address |-> EmptyStr]>>,
     contracts |-> <<[id |-> 4, vendorId |-> 1,
                      description |-> Str(<<"R", "o", "o", "f">>),
                      contractAmount |-> Num(1000), estimatedCompletion |-> Null,
                      tagIds |-> <<2, 3>>, payments |-> <<>>, files |-> <<>>]>>,
     tags |-> <<[id |-> 2, name |-> Str(<<"U", "r", "g", "e", "n", "t">>),
                 color |-> DefaultColor],
                [id |-> 3, name |-> Str(<<"H", "i">>), color |-> DefaultColor]>>]

\* A document the second backend has saved in an earlier run: one request
\* with a newVendor has created a vendor and a contract (uuids 1 and 2).
SeedDoc2 ==
    [last_updated |-> 0,
     vendors |-> <<[id |-> 1, companyName |-> Str(<<"A", "c", "m", "e">>),
                    contactName |-> EmptyStr, phone |-> EmptyStr,
                    email |-> EmptyStr, address |-> EmptyStr]>>,
     contracts |-> <<[id |-> 2, vendorId |-> 1,
                      description |-> Str(<<"R", "o", "o", "f">>),
                      contractAmount |-> Num(1000), estimatedCompletion |-> Null,
                      tagIds |-> <<>>, payments |-> <<>>, files |-> <<>>]>>,
     tags |-> <<>>]

\* data.json when the server starts.  The first backend creates the stamped
\* empty document at startup if it finds no file or a file of length zero (and
\* logs a failure to do so, which leaves what it found).
InitialFiles ==
    IF variant = 1
    THEN {MissingFile, TruncatedFile, DocFile([EmptyDoc EXCEPT !.last_updated = 1]),
          DocFile(SeedDoc)}
    ELSE {MissingFile, DocFile(SeedDoc2)}

\* The requests in flight in SpecSteps.
Slots == {"a", "b"}

\* A slot without a request.  pc is the await at which a request stands, base
\* the data.json it has read, content what its saveData writes (stamp is its
\* last_updated), fd the name under which the file it has opened is known
\* now, last tells that the other request had finished its save when this
\* one finished its own, and target is the vendor or tag the request names.
NoRequest ==
    [pc |-> "idle", op |-> "none", base |-> MissingFile, content |-> MissingFile,
     fd |-> "none", status |-> 0, created |-> 0, stamp |-> 0, last |-> FALSE,
     target |-> 0]

Init ==
    /\ tmp = MissingFile
    /\ inflight = [s \in Slots |-> NoRequest]
    /\ variant \in {1, 2}
    /\ file \in InitialFiles
    /\ uploads = {}
    /\ clock = 1
    /\ nextId = IF file = DocFile(SeedDoc) THEN 5
                ELSE IF file = DocFile(SeedDoc2) THEN 3 ELSE 1
    /\ resp = Idle

\* The server takes the next mutation request of a run: the previous request
\* is answered.
Serving == resp = Idle /\ clock <= MaxWrites

PostVendors ==
    /\ Serving
    /\ \E req \in VendorRequests :
           IF variant = 1 THEN PostVendorsHandler(req.body, req.io)
           ELSE PostVendorsHandler2(req.body, req.io)

PutVendor ==
    /\ Serving
    /\ \E vendorId \in VendorIdsNow \cup {0}, req \in VendorRequests :
           IF variant = 1 THEN PutVendorHandler(vendorId, req.body, req.io)
           ELSE PutVendorHandler2(vendorId, req.body, req.io)

DeleteVendor ==
    /\ Serving
    /\ \E vendorId \in VendorIdsNow \cup {0}, io \in IOOutcomes :
           IF variant = 1 THEN DeleteVendorHandler(vendorId, io)
           ELSE DeleteVendorHandler2(vendorId, io)

\* The tag routes exist in the first backend only.
PostTags ==
    /\ Serving
    /\ variant = 1
    /\ \E req \in TagRequests : PostTagsHandler(req.body, req.io)

DeleteTag ==
    /\ Serving
    /\ variant = 1
    /\ \E tagId \in TagIdsNow \cup {0}, io \in IOOutcomes :
           DeleteTagHandler(tagId, io)

GetContracts ==
    /\ resp = Idle
    /\ \E io \in {OkIO, [load |-> "fail", save |-> "ok"]} :
           IF variant = 1 THEN GetContractsHandler(io)
           ELSE GetContractsHandler2(io)

GetVendors ==
    /\ resp = Idle
    /\ \E io \in {OkIO, [load |-> "fail", save |-> "ok"]} : GetVendorsHandler(io)

GetTags ==
    /\ resp = Idle
    /\ variant = 1
    /\ \E io \in {OkIO, [load |-> "fail", save |-> "ok"]} : GetTagsHandler(io)

\* The reports are reads too.
GetSpendingByVendor ==
    /\ resp = Idle
    /\ \E io \in {OkIO, [load |-> "fail", save |-> "ok"]} :
           IF variant = 1 THEN SpendingByVendorHandler(io)
           ELSE SpendingByVendorHandler2(io)

GetSpendingByTag ==
    /\ resp = Idle
    /\ variant = 1
    /\ \E io \in {OkIO, [load |-> "fail", save |-> "ok"]} : SpendingByTagHandler(io)

PostContracts ==
    /\ Serving
    /\ \E req \in PostContractsRequests :
           IF variant = 1 THEN PostContractsHandler(req.body, req.io)
           ELSE PostContractsHandler2(req.body, req.io)

PutContract ==
    /\ Serving
    /\ \E contractId \in ContractIdsNow \cup {0}, req \in PutContractRequests :
           IF variant = 1 THEN PutContractHandler(contractId, req.body, req.io)
           ELSE PutContractHandler2(contractId, req.body, req.io)

\* The contractId of a delete is any uuid issued so far (the id of a contract
\* deleted earlier is one of them) or another string (0).
DeleteContract ==
    /\ Serving
    /\ \E contractId \in 0..(nextId - 1), unlinkFails \in SUBSET FileNamesNow,
          io \in IOOutcomes :
           IF variant = 1 THEN DeleteContractHandler(contractId, unlinkFails, io)
           ELSE DeleteContractHandler2(contractId, unlinkFails, io)

PostPayment ==
    /\ Serving
    /\ \E contractId \in ContractIdsNow \cup {0}, req \in PaymentRequests :
           IF variant = 1 THEN PostPaymentHandler(contractId, req.body, req.io)
           ELSE PostPaymentHandler2(contractId, req.body, req.io)

PutPayment ==
    /\ Serving
    /\ \E contractId \in ContractIdsNow \cup {0}, paymentId \in PaymentIdsNow \cup {0},
          req \in PaymentRequests :
           IF variant = 1 THEN PutPaymentHandler(contractId, paymentId, req.body, req.io)
           ELSE PutPaymentHandler2(contractId, paymentId, req.body, req.io)

DeletePayment ==
    /\ Serving
    /\ \E contractId \in ContractIdsNow \cup {0}, paymentId \in PaymentIdsNow \cup {0},
          io \in IOOutcomes :
           IF variant = 1 THEN DeletePaymentHandler(contractId, paymentId, io)
           ELSE DeletePaymentHandler2(contractId, paymentId, io)

PostUpload ==
    /\ Serving
    /\ \E contractId \in ContractIdsNow \cup {0}, hasFile \in BOOLEAN,
          originalname \in OriginalNames, unlinkOk \in BOOLEAN, io \in IOOutcomes :
           IF variant = 1
           THEN PostUploadHandler(contractId, hasFile, originalname, unlinkOk, io)
           ELSE PostUploadHandler2(contractId, hasFile, originalname, unlinkOk, io)

DeleteUpload ==
    /\ Serving
    /\ \E contractId \in ContractIdsNow \cup {0}, fileId \in FileIdsNow \cup {0},
          unlinkOk \in BOOLEAN, io \in IOOutcomes :
           IF variant = 1 THEN DeleteUploadHandler(contractId, fileId, unlinkOk, io)
           ELSE DeleteUploadHandler2(contractId, fileId, unlinkOk, io)

\* res.json / res.send: the response has left, the server takes the next request.
SendResponse ==
    /\ resp # Idle
    /\ resp' = Idle
    /\ UNCHANGED <<variant, file, uploads, clock, nextId, tmp, inflight>>

Next ==
    \/ PostVendors \/ PutVendor \/ DeleteVendor
    \/ PostTags \/ DeleteTag
    \/ GetVendors \/ GetTags
    \/ GetContracts \/ GetSpendingByVendor \/ GetSpendingByTag
    \/ PostContracts \/ PutContract \/ DeleteContract
    \/ PostPayment \/ PutPayment \/ DeletePayment
    \/ PostUpload \/ DeleteUpload
    \/ SendResponse

Spec == Init /\ [][Next]_vars

-----------------------------------------------------------------------------
(* Requests in flight.  Two requests run concurrently, each one of: POST   *)
(* /api/vendors, POST /api/contracts/:contractId/payments on the first     *)
(* contract, DELETE /api/vendors/:vendorId, DELETE /api/tags/:tagId and    *)
(* POST /api/contracts, with bodies that pass the checks of the body.  A   *)
(* handler runs from one await to the next without interruption;           *)
(* fs.writeFile is an open that truncates, a write and a close.            *)

Running == \A s \in Slots : inflight[s].pc # "crashed"

\* The vendor of POST /api/vendors {companyName: "Zed"}.
StepVendor(id) ==
    [id |-> id, companyName |-> Str(<<"Z", "e", "d">>), contactName |-> EmptyStr,
     phone |-> EmptyStr, email |-> EmptyStr, address |-> EmptyStr]

\* The payment of POST .../payments {date: "2024", amount: 400}.
StepPayment(id) ==
    [id |-> id, date |-> SomeDate, amount |-> Num(400), method |-> EmptyStr,
     notes |-> EmptyStr]

\* A document saved in an earlier run that holds, beside the seed, a vendor
\* no contract names.
StepSeed ==
    IF variant = 1 THEN [SeedDoc EXCEPT !.vendors = Append(@, StepVendor(5))]
    ELSE [SeedDoc2 EXCEPT !.vendors = Append(@, StepVendor(3))]

InitSteps ==
    /\ tmp = MissingFile
    /\ inflight = [s \in Slots |-> NoRequest]
    /\ variant \in {1, 2}
    /\ file \in InitialFiles \cup {DocFile(StepSeed)}
    /\ uploads = {}
    /\ clock = 1
    /\ nextId = IF file = DocFile(StepSeed) THEN (IF variant = 1 THEN 6 ELSE 4)
                ELSE IF file = DocFile(SeedDoc) THEN 5
                ELSE IF file = DocFile(SeedDoc2) THEN 3 ELSE 1
    /\ resp = Idle

StepOps == {"PostVendors", "PostPayment", "DeleteVendor", "DeleteTag", "PostContracts"}

\* The vendor or tag a request names: a vendor of the seed for DELETE
\* /api/vendors/:vendorId and for the vendorId of POST /api/contracts, the
\* first tag of the seed for DELETE /api/tags/:tagId.  POST /api/contracts
\* sends tagIds [2].
StepTargets(op) ==
    IF op \in {"DeleteVendor", "PostContracts"} THEN {1, IF variant = 1 THEN 5 ELSE 3}
    ELSE IF op = "DeleteTag" THEN (IF variant = 1 THEN {2} ELSE {})
    ELSE {0}

\* A handler that refuses nothing.
StepRefusedNever(op, target, data) == 0

\* The status with which the handler refuses the request after loadData, 0
\* if it goes on to saveData.
StepRefused(op, target, data) ==
    IF op = "PostPayment" THEN (IF data.contracts = <<>> THEN 404 ELSE 0)
    ELSE IF op = "DeleteVendor"
    THEN (IF isVendorUsed(data.contracts, target) THEN 409
          ELSE IF \A i \in 1..Len(data.vendors) : data.vendors[i].id # target THEN 404
          ELSE 0)
    ELSE IF op = "DeleteTag"
    THEN (IF \A i \in 1..Len(data.tags) : data.tags[i].id # target THEN 404 ELSE 0)
    ELSE IF op = "PostContracts"
    THEN (IF vendorIdMissing(data.vendors, Uuid(target)) THEN 400 ELSE 0)
    ELSE 0

\* The document the handler passes to saveData; id is the uuid it draws.
StepChange(op, target, data, id) ==
    LET KeepOthers(x) == x.id # target
    IN  IF op = "PostVendors"
        THEN [data EXCEPT !.vendors = Append(@, StepVendor(id))]
        ELSE IF op = "PostPayment"
        THEN [data EXCEPT !.contracts[1].payments = Append(@, StepPayment(id))]
        ELSE IF op = "DeleteVendor"
        THEN [data EXCEPT !.vendors = SelectSeq(@, KeepOthers)]
        ELSE IF op = "DeleteTag"
        THEN [data EXCEPT !.tags = SelectSeq(@, KeepOthers),
                          !.contracts = [i \in 1..Len(data.contracts) |->
                                            StripTag(data.contracts[i], target)]]
        ELSE [data EXCEPT !.contracts =
                 Append(@, [id |-> id, vendorId |-> target,
                            description |-> OptTrim(Roof),
                            contractAmount |-> Num(1000),
                            estimatedCompletion |-> Null,
                            tagIds |-> IF variant = 1
                                       THEN validTagIds(TagArray(<<2>>), data.tags)
                                       ELSE <<>>,
                            payments |-> <<>>, files |-> <<>>])]

\* The handler from the return of loadData to the first await of saveData:
\* the checks against the loaded document, its change, dataToSave with its
\* timestamp and the call of fs.writeFile.
StepLoad(s) ==
    /\ Running
    /\ clock <= MaxWrites
    /\ inflight[s].pc = "idle"
    /\ \E op \in StepOps : \E target \in StepTargets(op) :
          LET l == loadData(variant, file, "ok")
              req == [NoRequest EXCEPT !.op = op, !.base = file, !.target = target]
              refused == StepRefused(op, target, l.data)
              creates == op \in {"PostVendors", "PostPayment", "PostContracts"}
          IN  IF l.threw
              THEN /\ inflight' = [inflight EXCEPT ![s] =
                                      [req EXCEPT !.pc = "done", !.status = 500]]
                   /\ UNCHANGED <<nextId, clock>>
              ELSE IF refused # 0
              THEN /\ inflight' = [inflight EXCEPT ![s] =
                                      [req EXCEPT !.pc = "done", !.status = refused]]
                   /\ UNCHANGED <<nextId, clock>>
              ELSE /\ inflight' = [inflight EXCEPT ![s] =
                                      [req EXCEPT !.pc = "loaded",
                                                  !.created = IF creates THEN nextId ELSE 0,
                                                  !.stamp = clock + 1,
                                                  !.content =
                                                      saveData(variant, file,
                                                               StepChange(op, target, l.data, nextId),
                                                               clock + 1, "ok").file]]
                   /\ nextId' = IF creates THEN nextId + 1 ELSE nextId
                   /\ clock' = clock + 1
    /\ UNCHANGED <<variant, file, uploads, resp, tmp>>

\* fs.writeFile opens its target, which truncates it: data.json.tmp in the
\* first backend, data.json itself in the second.
StepOpen(s) ==
    /\ Running
    /\ inflight[s].pc = "loaded"
    /\ inflight' = [inflight EXCEPT ![s] =
                       [@ EXCEPT !.pc = "opened",
                                 !.fd = IF variant = 1 THEN "tmp" ELSE "file"]]
    /\ IF variant = 1
       THEN tmp' = TruncatedFile /\ UNCHANGED file
       ELSE file' = TruncatedFile /\ UNCHANGED tmp
    /\ UNCHANGED <<variant, uploads, clock, nextId, resp>>

\* What a write of content from offset 0 leaves in a file that holds old:
\* the content if the file was empty; if another request has written since
\* this one opened the file, the content, or the content followed by the end
\* of a longer text, which is no JSON.
Written(old, content) ==
    IF old.kind = "empty" THEN {content} ELSE {content, PartialFile}

\* The status after saveData has returned: 204 for the deletions.
StepSuccess(op) == IF op \in {"DeleteVendor", "DeleteTag"} THEN 204 ELSE 201

\* The other request has returned from saveData.
OtherSaved(s) ==
    \E t \in Slots \ {s} : inflight[t].pc = "done" /\ inflight[t].status \in {201, 204}

\* fs.writeFile writes the text and closes the file.  In the second backend
\* saveData returns and the handler answers 201.
StepWrite(s) ==
    /\ Running
    /\ inflight[s].pc = "opened"
    /\ IF inflight[s].fd = "tmp"
       THEN /\ tmp' \in Written(tmp, inflight[s].content)
            /\ UNCHANGED file
       ELSE /\ file' \in Written(file, inflight[s].content)
            /\ UNCHANGED tmp
    /\ inflight' = [inflight EXCEPT ![s] =
                       IF variant = 1 THEN [@ EXCEPT !.pc = "written"]
                       ELSE [@ EXCEPT !.pc = "done",
                                      !.status = StepSuccess(inflight[s].op),
                                      !.last = OtherSaved(s)]]
    /\ UNCHANGED <<variant, uploads, clock, nextId, resp>>

\* fs.rename(tempFile, DATA_FILE) of the first backend: data.json becomes the
\* file that is data.json.tmp now, whatever it holds, and a request that has
\* that file open goes on writing to it; without a data.json.tmp the rename
\* fails (ENOENT), saveData throws and the handler answers 500.
StepRename(s) ==
    /\ Running
    /\ variant = 1
    /\ inflight[s].pc = "written"
    /\ IF tmp.kind = "missing"
       THEN /\ inflight' = [inflight EXCEPT ![s] =
                               [@ EXCEPT !.pc = "done", !.status = 500]]
            /\ UNCHANGED <<file, tmp>>
       ELSE /\ file' = tmp
            /\ tmp' = MissingFile
            /\ inflight' = [t \in Slots |->
                               IF t = s
                               THEN [inflight[t] EXCEPT !.pc = "done",
                                                        !.status = StepSuccess(inflight[t].op),
                                                        !.last = OtherSaved(s)]
                               ELSE IF inflight[t].fd = "tmp" /\ inflight[t].pc = "opened"
                               THEN [inflight[t] EXCEPT !.fd = "file"]
                               ELSE inflight[t]]
    /\ UNCHANGED <<variant, uploads, clock, nextId, resp>>

\* The response is sent and the slot is free for the next request.
StepRespond(s) ==
    /\ Running
    /\ inflight[s].pc = "done"
    /\ inflight' = [inflight EXCEPT ![s] = NoRequest]
    /\ UNCHANGED <<variant, file, uploads, clock, nextId, resp, tmp>>

\* The process dies while a request is in saveData: between two system calls
\* (the files stay as they are) or during the write of a request, which
\* leaves the beginning of its text in the file it writes to.
StepCrash ==
    /\ Running
    /\ \E s \in Slots : inflight[s].pc \in {"loaded", "opened", "written"}
    /\ inflight' = [s \in Slots |->
                       IF inflight[s].pc \in {"loaded", "opened", "written"}
                       THEN [inflight[s] EXCEPT !.pc = "crashed"]
                       ELSE NoRequest]
    /\ \/ UNCHANGED <<file, tmp>>
       \/ \E s \in Slots :
             /\ inflight[s].pc = "opened"
             /\ IF inflight[s].fd = "tmp"
                THEN tmp' = PartialFile /\ UNCHANGED file
                ELSE file' = PartialFile /\ UNCHANGED tmp
    /\ UNCHANGED <<variant, uploads, clock, nextId, resp>>

NextSteps ==
    \/ \E s \in Slots : StepLoad(s)
    \/ \E s \in Slots : StepOpen(s)
    \/ \E s \in Slots : StepWrite(s)
    \/ \E s \in Slots : StepRename(s)
    \/ \E s \in Slots : StepRespond(s)
    \/ StepCrash

SpecSteps == InitSteps /\ [][NextSteps]_vars

-----------------------------------------------------------------------------
(* Referential integrity of the persisted document.                        *)

\* C1: after any sequence of serially executed mutations, every contract of
\* the persisted document has a vendorId that is the id of a vendor of the
\* persisted document.
C1_VendorIdResolvable ==
    \A i \in 1..Len(CurrentDoc.contracts) :
        \E j \in 1..Len(CurrentDoc.vendors) :
            CurrentDoc.vendors[j].id = CurrentDoc.contracts[i].vendorId

\* A vendor has just been deleted from a document that holds a contract.
C1_VendorDeletedBesideContract ==
    /\ resp.op = "DeleteVendor"
    /\ resp.status = 204
    /\ CurrentDoc.contracts # <<>>

\* C2: after any sequence of serially executed mutations, every id in every
\* contract's tagIds is the id of a tag of the persisted document.
C2_TagIdsExist ==
    \A i \in 1..Len(CurrentDoc.contracts) :
        \A j \in 1..Len(CurrentDoc.contracts[i].tagIds) :
            \E t \in 1..Len(CurrentDoc.tags) :
                CurrentDoc.tags[t].id = CurrentDoc.contracts[i].tagIds[j]

\* An update has just replaced the two tagIds of a contract by a single one.
C2_TagIdsReplaced ==
    /\ resp.op = "PutContract"
    /\ resp.status = 200
    /\ clock = 2
    /\ \E i \in 1..Len(CurrentDoc.contracts) :
          /\ CurrentDoc.contracts[i].id = resp.id
          /\ Len(CurrentDoc.contracts[i].tagIds) = 1

\* C3: Delete Vendor on an id some contract references answers 409, and on an
\* id that is in no contract and not in vendors answers 404, unless the
\* document could not be loaded (500); in all these cases data.json, with its
\* last_updated, is what it was and saveData was not called.
C3_DeleteVendorRefused ==
    [][resp'.op = "DeleteVendor" =>
        LET id == resp'.id
            used == \E i \in 1..Len(CurrentDoc.contracts) :
                        CurrentDoc.contracts[i].vendorId = id
            known == \E j \in 1..Len(CurrentDoc.vendors) :
                        CurrentDoc.vendors[j].id = id
            loadFailed == resp'.status = 500 /\ ~resp'.saveCalled
        IN  /\ used => (resp'.status = 409 \/ loadFailed) /\ file' = file
            /\ (~used /\ ~known) => (resp'.status = 404 \/ loadFailed) /\ file' = file
            /\ resp'.status \in {404, 409} => file' = file /\ ~resp'.saveCalled
    ]_vars

\* Delete Vendor has just answered 409 for the vendor of a contract.
C3_ConflictAnswered ==
    /\ resp.op = "DeleteVendor"
    /\ resp.status = 409
    /\ \E i \in 1..Len(CurrentDoc.contracts) :
          CurrentDoc.contracts[i].vendorId = resp.id

\* C4: a successful Delete Tag removes the tag from tags and its id from the
\* tagIds of every contract, and leaves the other tagIds entries, the other
\* fields of every contract and the vendors as they were; Delete Tag on an
\* absent id answers 404 (500 if the document could not be loaded) without
\* saving.
C4_DeleteTagStrips ==
    [][resp'.op = "DeleteTag" =>
        LET id == resp'.id
            old == CurrentDoc
            new == file'.doc
            Other(t) == t.id # id
            NotId(x) == x # id
            known == \E j \in 1..Len(old.tags) : old.tags[j].id = id
        IN  /\ resp'.status = 204 =>
                /\ known
                /\ file'.kind = "doc"
                /\ new.tags = SelectSeq(old.tags, Other)
                /\ new.vendors = old.vendors
                /\ Len(new.contracts) = Len(old.contracts)
                /\ \A i \in 1..Len(old.contracts) :
                      /\ new.contracts[i] =
                            [old.contracts[i] EXCEPT !.tagIds = SelectSeq(@, NotId)]
                      /\ \A j \in 1..Len(new.contracts[i].tagIds) :
                            new.contracts[i].tagIds[j] # id
            /\ ~known =>
                /\ resp'.status = 404 \/ resp'.status = 500
                /\ ~resp'.saveCalled
                /\ file' = file
    ]_vars

\* The first request of a run has deleted tag 2 of the seeded document; its
\* contract, which carried the tags 2 and 3, carries tag 3.
C4_TagStripped ==
    /\ resp.op = "DeleteTag"
    /\ resp.status = 204
    /\ resp.id = 2
    /\ clock = 2
    /\ file.kind = "doc"
    /\ Len(file.doc.contracts) = 1
    /\ file.doc.contracts[1].tagIds = <<3>>

-----------------------------------------------------------------------------
(* Derived figures on read.                                                *)

\* C5: every contract a read returns is a contract of the persisted document
\* and conversely, its paidTotal is the sum of the amounts of the payments
\* stored on it and its balanceOwed is contractAmount minus paidTotal (an
\* amount that is stored as null counts as 0).
C5_TotalsOnRead ==
    (resp.op = "GetContracts" /\ resp.status = 200) =>
        LET NumberOf(v) == IF v.k = "number" THEN v.n ELSE 0
            Sum(p) ==
                LET sum[k \in 0..Len(p)] ==
                        IF k = 0 THEN 0 ELSE sum[k - 1] + NumberOf(p[k].amount)
                IN  sum[Len(p)]
        IN  /\ Len(resp.view) = Len(CurrentDoc.contracts)
            /\ \A i \in 1..Len(CurrentDoc.contracts) :
                  \E j \in 1..Len(resp.view) :
                      resp.view[j].contract = CurrentDoc.contracts[i]
            /\ \A j \in 1..Len(resp.view) :
                  /\ resp.view[j].paidTotal = Sum(resp.view[j].contract.payments)
                  /\ resp.view[j].balanceOwed =
                        NumberOf(resp.view[j].contract.contractAmount)
                            - resp.view[j].paidTotal

\* A read returns a contract of 1000 with one payment of 400: paidTotal 400,
\* balanceOwed 600.
C5_ReadAfterPayment ==
    /\ resp.op = "GetContracts"
    /\ resp.status = 200
    /\ \E j \in 1..Len(resp.view) :
          /\ resp.view[j].contract.contractAmount = Num(1000)
          /\ Len(resp.view[j].contract.payments) = 1
          /\ resp.view[j].contract.payments[1].amount = Num(400)
          /\ resp.view[j].paidTotal = 400
          /\ resp.view[j].balanceOwed = 600

-----------------------------------------------------------------------------
(* Failed operations.                                                      *)

\* C6: every failed mutation (a 4xx answer, or a save that throws) leaves
\* data.json exactly as it was, and no path that answers 4xx has called
\* saveData.
C6_FailedMutationKeepsDocument ==
    [][(resp'.op \notin {"none", "GetContracts"} /\ resp'.status \notin {200, 201, 204}) =>
        /\ file' = file
        /\ resp'.status \in {400, 404, 409} => ~resp'.saveCalled
    ]_vars

-----------------------------------------------------------------------------
(* Create Contract and the inline vendor.                                  *)

\* C7: a Create Contract that succeeds without a vendorId appends exactly one
\* vendor, stores the new contract with that vendor's id and answers with
\* createdVendor; one that succeeds with a vendorId appends no vendor and
\* answers without createdVendor, whether or not newVendor is present; one
\* that fails appends no vendor.
C7_InlineVendorCreation ==
    [][resp'.op = "PostContracts" =>
        LET old == CurrentDoc
            new == file'.doc
            nv == Len(new.vendors)
        IN  /\ resp'.status = 201 =>
                /\ file'.kind = "doc"
                /\ Len(new.contracts) = Len(old.contracts) + 1
                /\ IF resp'.vendorIdGiven
                   THEN /\ new.vendors = old.vendors
                        /\ resp'.createdVendor = 0
                   ELSE /\ resp'.newVendorGiven
                        /\ nv = Len(old.vendors) + 1
                        /\ SubSeq(new.vendors, 1, nv - 1) = old.vendors
                        /\ \A j \in 1..(nv - 1) : new.vendors[j].id # new.vendors[nv].id
                        /\ new.contracts[Len(new.contracts)].vendorId = new.vendors[nv].id
                        /\ resp'.createdVendor = new.vendors[nv].id
            /\ resp'.status # 201 =>
                /\ resp'.createdVendor = 0
                /\ file' = file \/ file'.kind # "doc"
    ]_vars

\* A Create Contract with a vendorId and a newVendor has succeeded: no vendor
\* was created.
C7_VendorIdWins ==
    /\ resp.op = "PostContracts"
    /\ resp.status = 201
    /\ resp.vendorIdGiven
    /\ resp.newVendorGiven
    /\ resp.createdVendor = 0

-----------------------------------------------------------------------------
(* Stored amounts.                                                         *)

\* C8: in every reachable document state every stored payment has a numeric
\* amount strictly greater than 0.
C8_PaymentAmountsPositive ==
    \A i \in 1..Len(CurrentDoc.contracts) :
        \A j \in 1..Len(CurrentDoc.contracts[i].payments) :
            LET amount == CurrentDoc.contracts[i].payments[j].amount
            IN  amount.k = "number" /\ amount.n > 0

\* C9: in every reachable document state every stored contract has a numeric
\* contractAmount greater than or equal to 0.
C9_ContractAmountsNonNegative ==
    \A i \in 1..Len(CurrentDoc.contracts) :
        LET amount == CurrentDoc.contracts[i].contractAmount
        IN  amount.k = "number" /\ amount.n >= 0

-----------------------------------------------------------------------------
(* Tag names.                                                              *)

\* C10: in every reachable document state no two tags have names that are
\* equal ignoring case and surrounding whitespace.
C10_TagNamesUnique ==
    \A i, j \in 1..Len(CurrentDoc.tags) :
        i # j => trim(toLowerCase(CurrentDoc.tags[i].name.s))
                    # trim(toLowerCase(CurrentDoc.tags[j].name.s))

\* Create Tag has just answered 409 while a tag named "Urgent" exists.
C10_DuplicateRefused ==
    /\ resp.op = "PostTags"
    /\ resp.status = 409
    /\ \E i \in 1..Len(CurrentDoc.tags) :
          CurrentDoc.tags[i].name = Str(<<"U", "r", "g", "e", "n", "t">>)


-----------------------------------------------------------------------------
(* The tagIds of an update of a contract (first backend).                  *)

\* C17: on Update Contract, a tagIds that is a list replaces the stored
\* tagIds by the ids of the list that are ids of existing tags, an absent
\* tagIds leaves the stored tagIds as they were, and a tagIds that is present
\* and no list (null included) is answered 400 on an existing contract (500 if
\* the document could not be loaded), never 200, and nothing is saved.
C17_UpdateTagIds ==
    [][(variant = 1 /\ resp'.op = "PutContract") =>
        LET t == resp'.tagIds
            old == CurrentDoc
            tagIdSet == {old.tags[j].id : j \in 1..Len(old.tags)}
            IsTag(x) == x \in tagIdSet
            Has(doc) == \E i \in 1..Len(doc.contracts) : doc.contracts[i].id = resp'.id
            At(doc) == CHOOSE i \in 1..Len(doc.contracts) : doc.contracts[i].id = resp'.id
        IN  /\ resp'.status = 200 =>
                /\ file'.kind = "doc"
                /\ Has(old)
                /\ Has(file'.doc)
                /\ t.k \in {"array", "undefined"}
                /\ t.k = "array" =>
                      file'.doc.contracts[At(file'.doc)].tagIds = SelectSeq(t.a, IsTag)
                /\ t.k = "undefined" =>
                      file'.doc.contracts[At(file'.doc)].tagIds =
                          old.contracts[At(old)].tagIds
            /\ t.k \notin {"array", "undefined"} =>
                /\ resp'.status \in {400, 404, 500}
                /\ Has(old) => resp'.status \in {400, 500}
                /\ ~resp'.saveCalled
                /\ file' = file
    ]_vars

\* An update without tagIds has been saved on the seeded contract, which
\* still carries its two tags.
C17_TagIdsKept ==
    /\ variant = 1
    /\ resp.op = "PutContract"
    /\ resp.status = 200
    /\ resp.tagIds.k = "undefined"
    /\ \E i \in 1..Len(CurrentDoc.contracts) :
          /\ CurrentDoc.contracts[i].id = resp.id
          /\ CurrentDoc.contracts[i].tagIds = <<2, 3>>

-----------------------------------------------------------------------------
(* File records and stored binaries.                                       *)

\* The file records of a document, as pairs of record id and stored name.
FileRecords(doc) ==
    UNION {{<<doc.contracts[i].files[j].id, doc.contracts[i].files[j].filename>> :
                j \in 1..Len(doc.contracts[i].files)} : i \in 1..Len(doc.contracts)}

C19_DeleteContractDespiteUnlink ==
    [][resp'.op = "DeleteContract" =>
        LET id == resp'.id
            old == CurrentDoc
            known == \E i \in 1..Len(old.contracts) : old.contracts[i].id = id
            Other(c) == c.id # id
        IN  /\ known =>
                /\ resp'.status \in {204, 500}
                /\ resp'.status = 500 => resp'.loadThrew \/ resp'.saveCalled
            /\ resp'.status = 204 =>
                /\ known
                /\ file'.kind = "doc"
                /\ file'.doc.contracts = SelectSeq(old.contracts, Other)
                /\ file'.doc.vendors = old.vendors
                /\ file'.doc.tags = old.tags
                /\ uploads' \subseteq uploads
            /\ ~known =>
                /\ resp'.status = 404 \/ resp'.status = 500
                /\ ~resp'.saveCalled
                /\ file' = file
                /\ uploads' = uploads
    ]_vars

\* The seeded contract of the first backend has been given a file and then
\* deleted while the unlink of its binary failed: no contract is left and the
\* binary is still stored.
C19_DeletedWithBinaryLeft ==
    /\ variant = 1
    /\ resp.op = "DeleteContract"
    /\ resp.status = 204
    /\ resp.id = 4
    /\ CurrentDoc.contracts = <<>>
    /\ nextId = 7
    /\ uploads = {5}

\* C20: Add File Record of the first backend.  An answer without a file
\* record (404 for an absent contract, 500 when the load or the save fails)
\* leaves data.json as it was and, unless the unlink of the binary just stored
\* failed, the stored binaries as they were; a failed unlink leaves exactly
\* that binary behind.  An answer 201 has appended exactly one record
\* {id, filename, originalFilename} to the files of the addressed contract,
\* its filename being the one binary added to the store, and has changed no
\* other contract, no vendor and no tag.
C20_UploadRecordedOrRemoved ==
    [][(variant = 1 /\ resp'.op = "PostUpload") =>
        LET old == CurrentDoc
            new == file'.doc
            added == uploads' \ uploads
            At(doc) == CHOOSE i \in 1..Len(doc.contracts) : doc.contracts[i].id = resp'.id
        IN  /\ resp'.status \in {201, 400, 404, 500}
            /\ uploads \subseteq uploads'
            /\ resp'.status = 400 => file' = file /\ added = {}
            /\ resp'.status \in {404, 500} =>
                /\ file' = file
                /\ ~resp'.orphan => added = {}
                /\ resp'.orphan => Cardinality(added) = 1
            /\ resp'.status = 201 =>
                /\ Cardinality(added) = 1
                /\ resp'.id \in IdsOf(old.contracts)
                /\ file'.kind = "doc"
                /\ new.vendors = old.vendors
                /\ new.tags = old.tags
                /\ Len(new.contracts) = Len(old.contracts)
                /\ \A i \in 1..Len(old.contracts) :
                      i # At(old) => new.contracts[i] = old.contracts[i]
                /\ \E name \in OriginalNames :
                      new.contracts[At(old)] =
                          [old.contracts[At(old)] EXCEPT !.files =
                              Append(@, [id |-> resp'.created,
                                         filename |-> CHOOSE f \in added : TRUE,
                                         originalFilename |-> name])]
                /\ resp'.created \notin FileIdsNow
    ]_vars

\* The save of a file record has failed and the binary stored for it has been
\* removed: no binary is stored and no file record exists.
C20_BinaryRemovedAfterFailedSave ==
    /\ variant = 1
    /\ resp.op = "PostUpload"
    /\ resp.status = 500
    /\ resp.saveCalled
    /\ ~resp.orphan
    /\ uploads = {}
    /\ FileRecords(CurrentDoc) = {}
    /\ CurrentDoc.contracts # <<>>

-----------------------------------------------------------------------------
(* Load and save.                                                          *)

C12_UnparseableNeverEmpty ==
    [][file.kind \in {"empty", "partial"} =>
        /\ file' = file
        /\ resp'.op = "GetContracts" => resp'.status = 500
    ]_vars

-----------------------------------------------------------------------------
(* Reports.                                                                *)

\* The sum of the paid totals of the contracts at the indices S.
RECURSIVE SumPaid(_, _)
SumPaid(contracts, S) ==
    IF S = {} THEN 0
    ELSE LET i == CHOOSE i \in S : TRUE
         IN  paidForThisContract(contracts[i]) + SumPaid(contracts, S \ {i})

\* The sum of the amounts of the report entries at the indices S.
RECURSIVE SumData(_, _)
SumData(entries, S) ==
    IF S = {} THEN 0
    ELSE LET i == CHOOSE i \in S : TRUE
         IN  entries[i].data + SumData(entries, S \ {i})

\* The amount a report shows under a label (0 if the label is not listed).
Reported(entries, label) ==
    SumData(entries, {i \in 1..Len(entries) : entries[i].label = label})

\* C15: in every spend-by-tag report, the amount shown for a tag T is the
\* sum of the paid totals P of the contracts with P > 0 whose tagIds contain
\* T, and the amount shown as Untagged is the sum of P over the contracts with
\* P > 0 and no tagIds.
C15_FullAmountPerTag ==
    [][(resp'.op = "SpendingByTag" /\ resp'.status = 200) =>
        LET doc == CurrentDoc
            entries == resp'.view.entries
            paid(i) == paidForThisContract(doc.contracts[i])
            Tagged(id) == {i \in 1..Len(doc.contracts) :
                              /\ paid(i) > 0
                              /\ \E j \in 1..Len(doc.contracts[i].tagIds) :
                                    doc.contracts[i].tagIds[j] = id}
            NoTags == {i \in 1..Len(doc.contracts) :
                          paid(i) > 0 /\ doc.contracts[i].tagIds = <<>>}
        IN  /\ \A t \in 1..Len(doc.tags) :
                  Reported(entries, doc.tags[t].name) =
                      SumPaid(doc.contracts, Tagged(doc.tags[t].id))
            /\ Reported(entries, Untagged) = SumPaid(doc.contracts, NoTags)
    ]_vars

\* The sum of the contract amounts of the contracts at the indices S.
RECURSIVE SumContracted(_, _)
SumContracted(contracts, S) ==
    IF S = {} THEN 0
    ELSE LET i == CHOOSE i \in S : TRUE
         IN  FloatOrZero(contracts[i].contractAmount) + SumContracted(contracts, S \ {i})

\* C16: every spend-by-vendor report carries a summary whose totalContracted
\* is the sum of contractAmount over all contracts and whose totalSpent is the
\* sum of all payment amounts, and lists each vendor id whose accumulated spend
\* is positive exactly once, under the vendor's name and with the sum of the
\* paid totals of its contracts, and no other vendor.
C16_VendorReportTotals ==
    [][(resp'.op = "SpendingByVendor" /\ resp'.status = 200) =>
        LET doc == CurrentDoc
            entries == resp'.view.entries
            summary == resp'.view.summary
            all == 1..Len(doc.contracts)
            Of(id) == {i \in all : doc.contracts[i].vendorId = id}
            spend(id) == SumPaid(doc.contracts, Of(id))
            positive == {id \in {doc.contracts[i].vendorId : i \in all} : spend(id) > 0}
            line(id) == [label |-> VendorLabel(doc.vendors, id), data |-> spend(id)]
        IN  /\ summary.given
            /\ summary.totalContracted = SumContracted(doc.contracts, all)
            /\ summary.totalSpent = SumPaid(doc.contracts, all)
            /\ Len(entries) = Cardinality(positive)
            /\ \A id \in positive :
                  Cardinality({i \in 1..Len(entries) : entries[i] = line(id)}) =
                      Cardinality({other \in positive : line(other) = line(id)})
    ]_vars

-----------------------------------------------------------------------------
(* Crashes and concurrent requests.                                        *)

\* C11: when the process has died while a request was in saveData, data.json
\* is what that request had read before its save or a complete document,
\* never an empty file or the beginning of a JSON text.
C11_CrashLeavesCompleteDocument ==
    \A s \in Slots :
        inflight[s].pc = "crashed" =>
            \/ file = inflight[s].base
            \/ file.kind = "doc"

\* C14: when two requests have both read the same data.json before either
\* has saved, both are answered 201 or 204 and data.json is the document of the
\* request that finished its save last, which holds the change of that
\* request only.
C14_LaterSaveWins ==
    (/\ \A s \in Slots : inflight[s].pc = "done" /\ inflight[s].stamp > 0
     /\ \A s, t \in Slots : inflight[s].base = inflight[t].base)
    => /\ \A s \in Slots : inflight[s].status \in {201, 204}
       /\ \E s \in Slots : inflight[s].last /\ file = inflight[s].content
       /\ \A s \in Slots :
             ~inflight[s].last =>
                 inflight[s].created \notin
                     IdsOf(CurrentDoc.vendors) \cup PaymentIdsNow

-----------------------------------------------------------------------------
(* Reads.                                                                  *)

ReadOps == {"GetVendors", "GetTags", "GetContracts", "SpendingByVendor", "SpendingByTag"}

\* C21: a read or report request never calls saveData: data.json, with its
\* last_updated and the stored order of its tags and contracts, the clock of
\* the saves and the upload folder are the same before and after it.
C21_ReadsDoNotSave ==
    [][resp'.op \in ReadOps =>
          /\ ~resp'.saveCalled
          /\ file' = file
          /\ uploads' = uploads
          /\ clock' = clock
          /\ nextId' = nextId
      ]_vars

\* C21 happens: the tags have been listed in sorted order while data.json
\* holds them in another order.
C21_TagsListedSorted ==
    /\ resp.op = "GetTags"
    /\ resp.status = 200
    /\ Len(resp.view) >= 2
    /\ resp.view # CurrentDoc.tags

-----------------------------------------------------------------------------
(* The vendor reference of a new contract.                                 *)

\* The vendorId of the request being answered names a stored vendor.
VendorIdKnown(r) == r.vendorId.k = "uuid" /\ r.vendorId.n \in IdsOf(CurrentDoc.vendors)

\* The request being answered is refused as a bad request, or could not
\* load, and has left data.json alone without calling saveData.
RefusedUnsaved(r) ==
    /\ r.status = 400 \/ r.loadThrew
    /\ ~r.saveCalled
    /\ file' = file

-----------------------------------------------------------------------------
(* The tag-id filter.                                                      *)

\* The elements of cand at the positions K, in the order of the positions.
Picked(cand, K) ==
    LET nth(j) == CHOOSE i \in K : Cardinality({k \in K : k <= i}) = j
    IN  [j \in 1..Cardinality(K) |-> cand[nth(j)]]

\* The candidates that are in known, in the order in which the candidate
\* list shows them.
KnownInOrder(cand, known) == Picked(cand, {i \in 1..Len(cand) : cand[i] \in known})

\* The contract with the given id in the document d.
ContractOf(d, id) ==
    d.contracts[CHOOSE i \in 1..Len(d.contracts) : d.contracts[i].id = id]

-----------------------------------------------------------------------------
(* Referential integrity with requests in flight.                          *)

\* C24: with two requests in flight, whenever data.json holds a document,
\* every contract of it names a vendor of it and every id of its tagIds is
\* the id of a tag of it.
C24_IntegrityWhenInterleaved ==
    file.kind = "doc" =>
        \A i \in 1..Len(file.doc.contracts) :
            /\ file.doc.contracts[i].vendorId \in IdsOf(file.doc.vendors)
            /\ \A j \in 1..Len(file.doc.contracts[i].tagIds) :
                  file.doc.contracts[i].tagIds[j] \in IdsOf(file.doc.tags)

\* C24 happens: a DELETE of a vendor and a POST of a contract that names this
\* vendor have read the same data.json, and both have saved and answered
\* with success.
C24_DeleteBesideCreate ==
    \E s, t \in Slots :
        /\ inflight[s].op = "DeleteVendor" /\ inflight[s].status = 204
        /\ inflight[t].op = "PostContracts" /\ inflight[t].status = 201
        /\ inflight[s].target = inflight[t].target
        /\ inflight[s].base = inflight[t].base
        /\ inflight[s].pc = "done" /\ inflight[t].pc = "done"
        /\ file.kind = "doc"

-----------------------------------------------------------------------------
(* Two saves and the one data.json.tmp.                                    *)

\* C25: in the first backend, while the process runs, a save that returns
\* has placed its own complete document at data.json, and no step makes
\* data.json an empty or partly written file: no rename installs a
\* data.json.tmp that another save is still writing.
C25_ConcurrentSavesAtomic ==
    [][(variant = 1 /\ Running') =>
          /\ file'.kind \in {"empty", "partial"} => file' = file
          /\ \A s \in Slots :
                (/\ inflight[s].pc = "written"
                 /\ inflight'[s].pc = "done"
                 /\ inflight'[s].status \in {201, 204})
                => file' = inflight[s].content
      ]_vars

-----------------------------------------------------------------------------
(* The grand total of the vendor report.                                   *)

-----------------------------------------------------------------------------
(* Coverage of the tag report.                                             *)

\* C27: in every spend-by-tag report over a document reached by serial
\* mutations, each contract with a positive paid total P is counted in a
\* bucket: the report shows at least P as Untagged if the contract has no
\* tagIds, and otherwise at least P under the name of an existing tag of the
\* contract.
C27_PaidContractCounted ==
    [][(resp'.op = "SpendingByTag" /\ resp'.status = 200) =>
        LET doc == CurrentDoc
            entries == resp'.view.entries
        IN  \A i \in 1..Len(doc.contracts) :
                LET c == doc.contracts[i]
                    P == paidForThisContract(c)
                IN  P > 0 =>
                        IF c.tagIds = <<>>
                        THEN Reported(entries, Untagged) >= P
                        ELSE \E j \in 1..Len(c.tagIds) : \E t \in 1..Len(doc.tags) :
                                /\ doc.tags[t].id = c.tagIds[j]
                                /\ Reported(entries, doc.tags[t].name) >= P
    ]_vars

\* C27 happens: after a payment and the deletion of one of the two tags of
\* the contract, the report counts the contract under the tag that is left.
C27_CountedAfterDeleteTag ==
    /\ resp.op = "SpendingByTag"
    /\ resp.status = 200
    /\ Len(CurrentDoc.tags) = 1
    /\ Len(resp.view.entries) = 1
    /\ \E i \in 1..Len(CurrentDoc.contracts) :
          /\ paidForThisContract(CurrentDoc.contracts[i]) > 0
          /\ CurrentDoc.contracts[i].tagIds = <<CurrentDoc.tags[1].id>>

-----------------------------------------------------------------------------
(* Delete Contract and the stored binaries.                                *)

\* C28: when Delete Contract fails because saveData fails, the contract
\* record is still in data.json and every binary of its file records that was
\* in the upload folder is still there.
C28_FailedDeleteKeepsBinaries ==
    [][(resp'.op = "DeleteContract" /\ resp'.status = 500 /\ resp'.saveCalled) =>
        /\ file'.kind = "doc"
        /\ resp'.id \in IdsOf(file'.doc.contracts)
        /\ (FileNames(ContractOf(CurrentDoc, resp'.id)) \cap uploads) \subseteq uploads'
    ]_vars

-----------------------------------------------------------------------------
(* What an update of a contract or of its payments leaves alone.           *)

\* The contracts of new are those of old, except for the one with the given
\* id, whose fields other than those in Changed(old one, new one) are the
\* same.
OthersUnchanged(old, new, id) ==
    /\ new.vendors = old.vendors
    /\ new.tags = old.tags
    /\ Len(new.contracts) = Len(old.contracts)
    /\ \A i \in 1..Len(old.contracts) :
          /\ new.contracts[i].id = old.contracts[i].id
          /\ old.contracts[i].id # id => new.contracts[i] = old.contracts[i]

\* C29: a successful Update Contract leaves the id, the payments and the files
\* of the addressed contract as they were, and its tagIds too if the body has
\* none; a successful Add, Update or Delete Payment on a contract leaves every
\* field of it other than payments as it was; in both cases every other
\* contract, every vendor and every tag is unchanged.
C29_UpdateFrame ==
    [][/\ (resp'.op = "PutContract" /\ resp'.status = 200) =>
            /\ file'.kind = "doc"
            /\ OthersUnchanged(CurrentDoc, file'.doc, resp'.id)
            /\ LET old == ContractOf(CurrentDoc, resp'.id)
                   new == ContractOf(file'.doc, resp'.id)
               IN  /\ new.payments = old.payments
                   /\ new.files = old.files
                   /\ resp'.tagIds.k = "undefined" => new.tagIds = old.tagIds
       /\ (/\ resp'.op \in {"PostPayment", "PutPayment", "DeletePayment"}
           /\ resp'.status \in {200, 201, 204}) =>
            /\ file'.kind = "doc"
            /\ OthersUnchanged(CurrentDoc, file'.doc, resp'.id)
            /\ LET old == ContractOf(CurrentDoc, resp'.id)
                   new == ContractOf(file'.doc, resp'.id)
               IN  [new EXCEPT !.payments = old.payments] = old
      ]_vars

\* C29 happens: a contract that has a payment has been updated.
C29_UpdatedContractWithPayment ==
    /\ resp.op = "PutContract"
    /\ resp.status = 200
    /\ ContractOf(CurrentDoc, resp.id).payments # <<>>

-----------------------------------------------------------------------------
(* Payments beyond the contract amount.                                    *)

\* The body of a payment request with a date and a strictly positive amount.
PositivePayment(b) ==
    /\ Truthy(b.date)
    /\ ~TrimThrows(b.notes)
    /\ LET a == parseFloat(b.amount)
       IN  (a.k = "number" /\ a.n > 0) \/ (a.k = "infinity" /\ a.n > 0)

\* C30: with the storage working, Add Payment with a date and a strictly
\* positive amount on an existing contract is answered 201, and Update
\* Payment of an existing payment of it 200, whatever the contractAmount and
\* the paid total of the contract are.
C30_PaymentNotCapped ==
    [][resp'.op \in {"PostPayment", "PutPayment"} =>
        \A b \in {p \in PaymentBodies : PositivePayment(p)} :
            \A contractId \in IdsOf(CurrentDoc.contracts) :
                /\ (IF variant = 1 THEN PostPaymentHandler(contractId, b, OkIO)
                    ELSE PostPaymentHandler2(contractId, b, OkIO))
                   => resp'.status = 201
                /\ \A paymentId \in IdsOf(ContractOf(CurrentDoc, contractId).payments) :
                      (IF variant = 1 THEN PutPaymentHandler(contractId, paymentId, b, OkIO)
                       ELSE PutPaymentHandler2(contractId, paymentId, b, OkIO))
                      => resp'.status = 200
    ]_vars

\* C30 happens: a payment has been added to a contract with a contractAmount
\* of zero or more, and the contract's balanceOwed is negative now.
C30_NegativeBalance ==
    /\ resp.op = "PostPayment"
    /\ resp.status = 201
    /\ ContractOf(CurrentDoc, resp.id).contractAmount.k = "number"
    /\ ContractOf(CurrentDoc, resp.id).contractAmount.n >= 0
    /\ calculateContractTotals(ContractOf(CurrentDoc, resp.id)).balanceOwed < 0

=============================================================================
